---------------------------- MODULE Spec2Model ----------------------------
(***************************************************************************)
(* A model of the document-transformation service of pdf-api:             *)
(* PDFService (app/services/pdf_service.py) and the request handlers that  *)
(* call it (app/api/v1/pdf_manipulation.py).                               *)
(*                                                                         *)
(* Conventions.                                                            *)
(*  - A Python str is a sequence of one-character strings, so that split,  *)
(*    replace, strip and int() can be modelled by what they do.            *)
(*  - An Optional[T] is a sequence of length <= 1: None is <<>> and a      *)
(*    present value x is <<x>>.                                            *)
(*  - A document is the sequence of its pages; a page is a pair            *)
(*    <<document id, page number>> so that pages can be told apart.        *)
(*  - The service is stateless: a behaviour is one request.  Init draws    *)
(*    the request, the action of the handler computes the response.        *)
(***************************************************************************)
EXTENDS Integers, Sequences, FiniteSets, TLC

VARIABLES
    pc,     \* "ready" before the call, "done" after it
    req,    \* the request (arguments of the call)
    resp,   \* the response (return value or raised exception)
    redis,  \* the Redis store: the api_key:<key> hashes and the rate_limit:<key> counters
    temp_files  \* the files in settings.TEMP_DIR that PDFService operations created

vars == <<pc, req, resp, redis, temp_files>>

\* the store and the directory of a behaviour that uses neither
NoRedis == <<>>
NoTempFiles == {}

-----------------------------------------------------------------------------
(* Bounds of the model                                                     *)

MaxExprLen == 5      \* longest enumerated page-range expression
MaxTotal == 2        \* largest enumerated page count for the resolver

-----------------------------------------------------------------------------
(* Python values                                                           *)

None == <<>>
Some(x) == <<x>>

\* bool(x) of an Optional[str] / Optional[list]: None and "" / [] are falsy
TruthySeq(o) == o # None /\ o[1] # <<>>
\* bool(x) of an Optional[int]: None and 0 are falsy
TruthyInt(o) == o # None /\ o[1] # 0

Min(a, b) == IF a <= b THEN a ELSE b
Max(a, b) == IF a >= b THEN a ELSE b

\* list(range(a, b))
PyRange(a, b) == [i \in 1..Max(0, b - a) |-> a + i - 1]

\* every sequence over A of length <= n
SeqsUpTo(A, n) == UNION {[1..k -> A] : k \in 0..n}

Digits == {"0", "1", "2", "3", "4", "5", "6", "7", "8", "9"}

DigitVal(c) ==
    CASE c = "0" -> 0 [] c = "1" -> 1 [] c = "2" -> 2 [] c = "3" -> 3
      [] c = "4" -> 4 [] c = "5" -> 5 [] c = "6" -> 6 [] c = "7" -> 7
      [] c = "8" -> 8 [] c = "9" -> 9

\* s.replace(' ', '')
RemoveSpaces(s) == SelectSeq(s, LAMBDA c : c # " ")

\* index of the first occurrence of sep in s, 0 when there is none
RECURSIVE FindFrom(_, _, _)
FindFrom(s, sep, i) ==
    IF i > Len(s) THEN 0
    ELSE IF s[i] = sep THEN i
    ELSE FindFrom(s, sep, i + 1)

\* s.split(sep) for a one-character separator
RECURSIVE PySplit(_, _)
PySplit(s, sep) ==
    LET k == FindFrom(s, sep, 1) IN
    IF k = 0 THEN <<s>>
    ELSE <<SubSeq(s, 1, k - 1)>> \o PySplit(SubSeq(s, k + 1, Len(s)), sep)

\* s.strip() (the only whitespace of the model is the space)
RECURSIVE PyStrip(_)
PyStrip(s) ==
    IF s = <<>> THEN s
    ELSE IF Head(s) = " " THEN PyStrip(Tail(s))
    ELSE IF s[Len(s)] = " " THEN PyStrip(SubSeq(s, 1, Len(s) - 1))
    ELSE s

\* the digits part of an int() literal: digits, single underscores between them
IntBodyOk(b) ==
    /\ b # <<>>
    /\ b[1] \in Digits
    /\ b[Len(b)] \in Digits
    /\ \A i \in 1..Len(b) : b[i] \in Digits \cup {"_"}
    /\ \A i \in 1..(Len(b) - 1) : ~(b[i] = "_" /\ b[i + 1] = "_")

IntBody(s) ==
    LET t == PyStrip(s) IN
    IF t # <<>> /\ Head(t) \in {"+", "-"} THEN Tail(t) ELSE t

\* int(s) does not raise ValueError
IntOk(s) == IntBodyOk(IntBody(s))

RECURSIVE DigitsVal(_, _)
DigitsVal(b, acc) ==
    IF b = <<>> THEN acc
    ELSE IF Head(b) = "_" THEN DigitsVal(Tail(b), acc)
    ELSE DigitsVal(Tail(b), 10 * acc + DigitVal(Head(b)))

\* int(s), for IntOk(s)
IntVal(s) ==
    LET t == PyStrip(s)
        v == DigitsVal(IntBody(s), 0)
    IN  IF t # <<>> /\ Head(t) = "-" THEN 0 - v ELSE v

\* sorted(set(l)) of a list of integers
RECURSIVE SortedOfSet(_)
SortedOfSet(S) ==
    IF S = {} THEN <<>>
    ELSE LET m == CHOOSE x \in S : \A y \in S : x <= y
         IN  <<m>> \o SortedOfSet(S \ {m})

Elems(l) == {l[i] : i \in 1..Len(l)}

\* page_list returned as built: neither deduplicated nor sorted
unsorted_list(l) == l

sorted_set(l) == SortedOfSet(Elems(l))

\* a call's outcome: a returned value or a raised exception
Return(v) == [ok |-> TRUE, val |-> v, exc |-> "none"]
Raise(e) == [ok |-> FALSE, val |-> <<>>, exc |-> e]

-----------------------------------------------------------------------------
(* PDFService.parse_page_ranges                                            *)

\* range_token with the range's end taken as exclusive and 1-based
range_token_end_exclusive(range_str, total_pages) ==
    IF FindFrom(range_str, "-", 1) # 0
    THEN LET parts == PySplit(range_str, "-") IN
         IF Len(parts) # 2 \/ ~IntOk(parts[1]) \/ ~IntOk(parts[2])
         THEN Raise("ValueError")
         ELSE Return(PyRange(IntVal(parts[1]) - 1,
                             Min(IntVal(parts[2]), total_pages) - 1))
    ELSE IF ~IntOk(range_str) THEN Raise("ValueError")
         ELSE LET page_num == IntVal(range_str) - 1 IN
              IF 0 <= page_num /\ page_num < total_pages
              THEN Return(<<page_num>>)
              ELSE Return(<<>>)

\* the body of the loop for one token: the indices it appends to page_list
range_token(range_str, total_pages) ==
    IF FindFrom(range_str, "-", 1) # 0
    THEN LET parts == PySplit(range_str, "-") IN
         IF Len(parts) # 2 \/ ~IntOk(parts[1]) \/ ~IntOk(parts[2])
         THEN Raise("ValueError")
         ELSE Return(PyRange(IntVal(parts[1]) - 1,
                             Min(IntVal(parts[2]), total_pages)))
    ELSE IF ~IntOk(range_str) THEN Raise("ValueError")
         ELSE LET page_num == IntVal(range_str) - 1 IN
              IF 0 <= page_num /\ page_num < total_pages
              THEN Return(<<page_num>>)
              ELSE Return(<<>>)

\* for range_str in ranges: ... page_list.extend / append
RECURSIVE range_loop(_, _, _)
range_loop(ranges, total_pages, page_list) ==
    IF ranges = <<>> THEN Return(page_list)
    ELSE LET r == range_token(Head(ranges), total_pages) IN
         IF ~r.ok THEN r
         ELSE range_loop(Tail(ranges), total_pages, page_list \o r.val)

parse_page_ranges(pages, total_pages) ==
    IF ~TruthySeq(pages) THEN Return(PyRange(0, total_pages))
    ELSE LET ranges == PySplit(RemoveSpaces(pages[1]), ",")
             r == range_loop(ranges, total_pages, <<>>)
         IN  IF ~r.ok THEN r ELSE Return(sorted_set(r.val))

-----------------------------------------------------------------------------
(* The resolver on its own: Init draws (pages, total_pages), the action    *)
(* applies parse_page_ranges.                                              *)

ExprAlphabet == {"0", "1", "2", ",", "-", "+", " ", "x"}

Str_1_3_5_7_10 == <<"1", "-", "3", ",", "5", ",", "7", "-", "1", "0">>
Str_2_4_6 == <<"2", ",", "4", "-", "6">>

\* expressions beyond the enumerated length, with their page counts
ExampleCalls ==
    { <<Str_1_3_5_7_10, 12>>,
      <<Str_2_4_6, 6>>,
      << <<"1", "-", "2", ",", "2", "-", "3">>, 3 >>,
      << <<"3", ",", "1", "-", "2", ",", "1">>, 3 >>,
      << <<"0", "-", "5">>, 3 >>,
      << <<"1", "_", "0">>, 12 >>,
      << <<"1", "-", "2", "-", "3">>, 3 >> }

RangePages == {None} \cup {Some(s) : s \in SeqsUpTo(ExprAlphabet, MaxExprLen)}

NoResp == [ok |-> FALSE, val |-> <<>>, exc |-> "pending"]

InitRange ==
    /\ pc = "ready"
    /\ redis = NoRedis
    /\ temp_files = NoTempFiles
    /\ \/ \E p \in RangePages, t \in 0..MaxTotal :
            req = [pages |-> p, total_pages |-> t]
       \/ \E c \in ExampleCalls :
            req = [pages |-> Some(c[1]), total_pages |-> c[2]]
    /\ resp = NoResp

ParsePageRanges ==
    /\ pc = "ready"
    /\ resp' = parse_page_ranges(req.pages, req.total_pages)
    /\ pc' = "done"
    /\ UNCHANGED <<redis, temp_files>>
    /\ UNCHANGED req

NextRange == ParsePageRanges

SpecRange == InitRange /\ [][NextRange]_vars

-----------------------------------------------------------------------------
(* SplitPDFRequest.validate_pages: the documented grammar of a page-range  *)
(* expression, r'^(\d+(-\d+)?)(,\d+(-\d+)?)*$' on v.replace(' ', '').      *)

\* \d+
IsNumber(s) == s # <<>> /\ \A i \in 1..Len(s) : s[i] \in Digits

\* \d+(-\d+)?
IsToken(s) ==
    LET parts == PySplit(s, "-") IN
    /\ Len(parts) \in {1, 2}
    /\ \A i \in 1..Len(parts) : IsNumber(parts[i])

\* re.match(pattern, s)
MatchesPattern(s) ==
    LET toks == PySplit(s, ",") IN \A i \in 1..Len(toks) : IsToken(toks[i])

validate_pages(v) ==
    IF TruthySeq(v) /\ ~MatchesPattern(RemoveSpaces(v[1]))
    THEN Raise("ValueError")
    ELSE Return(v)

-----------------------------------------------------------------------------
(* Claims about the page-range resolver (specification SpecRange)          *)

Returned == pc = "done" /\ resp.ok

\* C1: every index parse_page_ranges returns satisfies 0 <= i < total, for
\* every accepted expression and every total >= 0 (also when a range starts
\* at 0 or ends beyond total).
C1_IndicesWithinTotal ==
    Returned =>
        \A i \in 1..Len(resp.val) :
            0 <= resp.val[i] /\ resp.val[i] < req.total_pages

\* The reference resolver of the specification: the union over the tokens of
\* {n-1} for a single n with 1 <= n <= total and of a-1 .. min(b,total)-1
\* for a range a-b; all of 0 .. total-1 for a null or empty expression.
ResolveToken(tok, total) ==
    LET parts == PySplit(tok, "-") IN
    IF Len(parts) = 2
    THEN (IntVal(parts[1]) - 1)..(Min(IntVal(parts[2]), total) - 1)
    ELSE IF 1 <= IntVal(tok) /\ IntVal(tok) <= total
         THEN {IntVal(tok) - 1} ELSE {}

Resolve(expr, total) ==
    IF expr = None \/ expr = Some(<<>>) THEN 0..(total - 1)
    ELSE UNION {ResolveToken(tok, total) :
                    tok \in Elems(PySplit(RemoveSpaces(expr[1]), ","))}

\* C2: the indices parse_page_ranges returns are those of the reference
\* resolver; resolve("1-3,5,7-10", 12) = {0,1,2,4,6,7,8,9} and
\* resolve("2,4-6", 6) = {1,3,4,5}.
C2_EqualsReference ==
    Returned =>
        /\ Elems(resp.val) = Resolve(req.pages, req.total_pages)
        /\ (req.pages = Some(Str_1_3_5_7_10) /\ req.total_pages = 12
                => Elems(resp.val) = {0, 1, 2, 4, 6, 7, 8, 9})
        /\ (req.pages = Some(Str_2_4_6) /\ req.total_pages = 6
                => Elems(resp.val) = {1, 3, 4, 5})

C2_Witness ==
    /\ Returned
    /\ req.pages = Some(Str_1_3_5_7_10)
    /\ req.total_pages = 12
    /\ resp.val = <<0, 1, 2, 4, 6, 7, 8, 9>>

\* C3: the list parse_page_ranges returns is strictly ascending, hence has
\* no duplicate index, whatever the order and overlap of the tokens.
C3_StrictlyAscending ==
    Returned =>
        \A i \in 1..(Len(resp.val) - 1) : resp.val[i] < resp.val[i + 1]

\* tokens out of order, a repeated number and a range overlapping both
C3_Witness ==
    /\ Returned
    /\ req.pages = Some(<<"3", ",", "1", "-", "2", ",", "1">>)
    /\ req.total_pages = 3
    /\ resp.val = <<0, 1, 2>>

\* C4: parse_page_ranges raises for every non-empty expression that, with
\* its spaces removed, does not match the grammar; it never returns a list
\* for such an expression.
C4_RejectsNonGrammar ==
    (pc = "done" /\ TruthySeq(req.pages)
        /\ ~MatchesPattern(RemoveSpaces(req.pages[1])))
    => (~resp.ok /\ resp.exc = "ValueError")

-----------------------------------------------------------------------------
(* Documents, uploads and downloads                                        *)

MaxDocs == 2         \* most documents in one merge request
MaxDocPages == 2     \* most pages of one enumerated document

MAX_UPLOAD_SIZE == 52428800
MAX_MERGE_FILES == 20

\* the document with id d and n pages
Doc(d, n) == [k \in 1..n |-> <<d, k>>]

\* the bytes of a file: what it starts with, its length and, for a readable
\* document, its pages
PdfBytes(doc) == [magic |-> "%PDF", size |-> 1, pages |-> doc]
JunkBytes == [magic |-> "<htm", size |-> 1, pages |-> <<>>]
HugeBytes(doc) == [magic |-> "%PDF", size |-> MAX_UPLOAD_SIZE + 1, pages |-> doc]

\* an UploadFile: filename extension and content
Upload(ext, content) == [ext |-> ext, content |-> content]

\* the uploads a client may send as file number d
Uploads(d) ==
    {Upload(".pdf", PdfBytes(Doc(d, n))) : n \in 1..MaxDocPages}
    \cup {Upload(".pdf", JunkBytes),
          Upload(".txt", PdfBytes(Doc(d, 1))),
          Upload(".pdf", HugeBytes(Doc(d, 1)))}

\* what a URL answers: an HTTP status and a body
Remote(status, content) == [status |-> status, content |-> content]

Remotes(d) ==
    {Remote(200, PdfBytes(Doc(d, n))) : n \in 1..MaxDocPages}
    \cup {Remote(200, JunkBytes), Remote(404, JunkBytes)}

\* the lists of n uploads, file number d drawn from Uploads(d), lo <= n <= hi
UploadLists(lo, hi) ==
    UNION {{f \in [1..n -> UNION {Uploads(d) : d \in 1..n}] :
                \A d \in 1..n : f[d] \in Uploads(d)} : n \in lo..hi}

\* the lists of n URLs, URL number d answering with one of Remotes(d)
RemoteLists(lo, hi) ==
    UNION {{f \in [1..n -> UNION {Remotes(d) : d \in 1..n}] :
                \A d \in 1..n : f[d] \in Remotes(d)} : n \in lo..hi}

\* l[i] of a Python list: 0-based, negative indices count from the end
PyIndexOk(l, i) == 0 - Len(l) <= i /\ i < Len(l)
PyIndex(l, i) == IF i < 0 THEN l[Len(l) + i + 1] ELSE l[i + 1]

RECURSIVE Concat(_)
Concat(ls) == IF ls = <<>> THEN <<>> ELSE Head(ls) \o Concat(Tail(ls))

\* PyPDF2.PdfReader(io.BytesIO(data)): the pages, or a read error
PdfReader(data) ==
    IF data.magic = "%PDF" THEN Return(data.pages) ELSE Raise("PdfReadError")

\* an endpoint's outcome: the HTTP status, and for a failure the exception
\* that caused it
Http200(v) == [ok |-> TRUE, val |-> v, exc |-> "none", status |-> 200]
HttpError(status, e) == [ok |-> FALSE, val |-> <<>>, exc |-> e, status |-> status]

\* except Exception as e: raise HTTPException(status_code=500, detail=str(e))
CatchAll(r) == IF r.ok THEN r ELSE HttpError(500, r.exc)

-----------------------------------------------------------------------------
(* dependencies.py: file validation                                        *)

validate_file_extension(ext, allowed_extensions) == ext \in allowed_extensions

validate_file_size(file_size) == file_size <= MAX_UPLOAD_SIZE

validate_pdf_file(file) ==
    IF ~validate_file_extension(file.ext, {".pdf"})
    THEN Raise("HTTPException(400): Invalid file type")
    ELSE IF ~validate_file_size(file.content.size)
    THEN Raise("HTTPException(413): File too large")
    ELSE IF file.content.magic # "%PDF"
    THEN Raise("HTTPException(400): Invalid PDF file")
    ELSE Return(file.content)

RECURSIVE validate_each(_, _)
validate_each(files, pdf_contents) ==
    IF files = <<>> THEN Return(pdf_contents)
    ELSE LET r == validate_pdf_file(Head(files)) IN
         IF ~r.ok THEN r
         ELSE validate_each(Tail(files), Append(pdf_contents, r.val))

validate_multiple_pdf_files(files) ==
    IF files = <<>> THEN Raise("HTTPException(400): No files provided")
    ELSE IF Len(files) > MAX_MERGE_FILES
    THEN Raise("HTTPException(400): Too many files")
    ELSE validate_each(files, <<>>)

-----------------------------------------------------------------------------
(* PDFService.get_pdf_metadata, as far as the handlers use it: the page    *)
(* count, after reading pages[0]                                           *)

get_pdf_metadata(pdf_pages) ==
    IF pdf_pages = <<>> THEN Raise("IndexError")
    ELSE Return(Len(pdf_pages))

-----------------------------------------------------------------------------
(* PDFService.merge_pdfs                                                   *)

\* for pdf_data in pdf_files: merger.append(PdfReader(pdf_data))
RECURSIVE merger_append(_, _)
merger_append(pdf_files, merged) ==
    IF pdf_files = <<>> THEN Return(merged)
    ELSE LET r == PdfReader(Head(pdf_files)) IN
         IF ~r.ok THEN r
         ELSE merger_append(Tail(pdf_files), merged \o r.val)

\* pdf_files = [pdf_files[i] for i in order]
reorder(pdf_files, order) ==
    IF \E k \in 1..Len(order) : ~PyIndexOk(pdf_files, order[k])
    THEN Raise("IndexError")
    ELSE Return([k \in 1..Len(order) |-> PyIndex(pdf_files, order[k])])

service_merge_pdfs(pdf_files, order) ==
    IF TruthySeq(order)
    THEN LET r == reorder(pdf_files, order[1]) IN
         IF ~r.ok THEN r ELSE merger_append(r.val, <<>>)
    ELSE merger_append(pdf_files, <<>>)

\* the tail both merge handlers share: merge, then read the metadata
merge_and_describe(pdf_contents, order_list) ==
    LET merged == service_merge_pdfs(pdf_contents, order_list) IN
    IF ~merged.ok THEN merged
    ELSE LET metadata == get_pdf_metadata(merged.val) IN
         IF ~metadata.ok THEN metadata ELSE Return(merged.val)

-----------------------------------------------------------------------------
(* POST /pdf/merge                                                         *)

\* order_list = [int(x.strip()) for x in order.split(',')]
parse_order(order) ==
    LET items == PySplit(order, ",") IN
    IF \E k \in 1..Len(items) : ~IntOk(PyStrip(items[k]))
    THEN Raise("ValueError: invalid literal for int()")
    ELSE Return([k \in 1..Len(items) |-> IntVal(PyStrip(items[k]))])

\* the order-parsing block of the handler, lines 61-68
merge_order_list(order, files) ==
    IF ~TruthySeq(order) THEN Return(None)
    ELSE LET r == parse_order(order[1]) IN
         IF ~r.ok THEN Raise("HTTPException(400): invalid order")
         ELSE IF Len(r.val) # Len(files)
         THEN Raise("HTTPException(400): Order list must match number of files")
         ELSE Return(Some(r.val))

api_merge_pdfs(files, order) ==
    LET pdf_contents == validate_multiple_pdf_files(files) IN
    IF ~pdf_contents.ok THEN CatchAll(pdf_contents)
    ELSE LET order_list == merge_order_list(order, files) IN
         IF ~order_list.ok THEN CatchAll(order_list)
         ELSE LET r == merge_and_describe(pdf_contents.val, order_list.val) IN
              IF ~r.ok THEN CatchAll(r) ELSE Http200(r.val)

-----------------------------------------------------------------------------
(* POST /pdf/merge-urls                                                    *)

\* MergePDFRequest.validate_order
validate_order(v, urls) ==
    IF TruthySeq(v) /\ urls # <<>> /\ Len(v[1]) # Len(urls)
    THEN Raise("ValueError: Order list must match number of files")
    ELSE Return(v)

\* pdf_service.download_file for each url
RECURSIVE download_each(_, _)
download_each(urls, pdf_contents) ==
    IF urls = <<>> THEN Return(pdf_contents)
    ELSE IF Head(urls).status # 200 THEN Raise("ValueError: Failed to download")
    ELSE download_each(Tail(urls), Append(pdf_contents, Head(urls).content))

api_merge_pdfs_from_urls(urls, order) ==
    LET v == validate_order(order, urls) IN
    \* a validator's ValueError is answered by the framework, before the handler
    IF ~v.ok THEN HttpError(422, v.exc)
    ELSE IF urls = <<>> THEN CatchAll(Raise("HTTPException(400): No URLs provided"))
    ELSE LET pdf_contents == download_each(urls, <<>>) IN
         IF ~pdf_contents.ok THEN CatchAll(pdf_contents)
         ELSE LET r == merge_and_describe(pdf_contents.val, order) IN
              IF ~r.ok THEN CatchAll(r) ELSE Http200(r.val)

-----------------------------------------------------------------------------
(* The merge requests: Init draws the request, the handler answers it.     *)

MaxOrderLen == 3     \* longest enumerated order string of /merge

OrderAlphabet == {"0", "1", ",", "-", " "}

MergeOrderStrings ==
    {None} \cup {Some(s) : s \in SeqsUpTo(OrderAlphabet, MaxOrderLen)}

MergeOrderLists ==
    {None} \cup {Some(l) : l \in SeqsUpTo(-1..MaxDocs, MaxDocs + 1)}

InitMerge ==
    /\ pc = "ready"
    /\ redis = NoRedis
    /\ temp_files = NoTempFiles
    /\ \/ \E f \in UploadLists(1, MaxDocs), o \in MergeOrderStrings :
            req = [endpoint |-> "/merge", files |-> f, order |-> o]
       \/ \E u \in RemoteLists(0, MaxDocs), o \in MergeOrderLists :
            req = [endpoint |-> "/merge-urls", files |-> u, order |-> o]
    /\ resp = NoResp

MergeUpload ==
    /\ pc = "ready"
    /\ req.endpoint = "/merge"
    /\ resp' = api_merge_pdfs(req.files, req.order)
    /\ pc' = "done"
    /\ UNCHANGED <<redis, temp_files>>
    /\ UNCHANGED req

MergeUrls ==
    /\ pc = "ready"
    /\ req.endpoint = "/merge-urls"
    /\ resp' = api_merge_pdfs_from_urls(req.files, req.order)
    /\ pc' = "done"
    /\ UNCHANGED <<redis, temp_files>>
    /\ UNCHANGED req

NextMerge == MergeUpload \/ MergeUrls

SpecMerge == InitMerge /\ [][NextMerge]_vars

-----------------------------------------------------------------------------
(* Claims about merge (specification SpecMerge)                            *)

\* every input of the request is a readable document that reaches the engine
MergeDocsValid ==
    \A k \in 1..Len(req.files) :
        IF req.endpoint = "/merge"
        THEN validate_pdf_file(req.files[k]).ok
        ELSE req.files[k].status = 200 /\ PdfReader(req.files[k].content).ok

\* the request supplies an order list: a JSON list on /merge-urls, a
\* comma-separated list of integers on /merge
MergeHasOrder ==
    IF req.endpoint = "/merge"
    THEN TruthySeq(req.order) /\ parse_order(req.order[1]).ok
    ELSE req.order # None

MergeOrder ==
    IF req.endpoint = "/merge" THEN parse_order(req.order[1]).val
    ELSE req.order[1]

MergeFailedValidation ==
    /\ ~resp.ok
    /\ resp.exc \in {"HTTPException(400): Order list must match number of files",
                     "ValueError: Order list must match number of files"}

\* C5: for a non-empty list of documents and a supplied order list, merge
\* fails with a validation error iff len(order) # len(documents); an empty
\* order list fails and an order list of matching length never fails.  (The
\* success of an order holding a value that is no index of the input list
\* is left unjudged.)
C5_FailsIffLengthMismatch ==
    (pc = "done" /\ req.files # <<>> /\ MergeDocsValid /\ MergeHasOrder)
    => /\ MergeFailedValidation <=> Len(MergeOrder) # Len(req.files)
       /\ (/\ Len(MergeOrder) = Len(req.files)
           /\ \A k \in 1..Len(MergeOrder) :
                MergeOrder[k] \in 0..(Len(req.files) - 1))
          => resp.ok

\* the page sequences of the request's documents, in input order
MergeInputs == [k \in 1..Len(req.files) |-> req.files[k].content.pages]

\* C6: when merge succeeds the output is the concatenation of the complete
\* page sequences of documents[order[0]], documents[order[1]], ..., or of the
\* documents in input order when no order is given.  (An order value that is
\* no index of the input list is left unjudged.)
C6_OutputIsConcatenation ==
    (pc = "done" /\ resp.ok)
    => IF ~MergeHasOrder THEN resp.val = Concat(MergeInputs)
       ELSE (\A k \in 1..Len(MergeOrder) :
                MergeOrder[k] \in 0..(Len(req.files) - 1))
            => resp.val = Concat([k \in 1..Len(MergeOrder) |->
                                    MergeInputs[MergeOrder[k] + 1]])

-----------------------------------------------------------------------------
(* PDFService.split_pdf                                                    *)

\* Python's // and % (floor division; the remainder has the divisor's sign)
PyFloorDiv(a, b) == IF b > 0 THEN a \div b ELSE (0 - a) \div (0 - b)
PyMod(a, b) == a - b * PyFloorDiv(a, b)

\* writer.add_page(pdf_reader.pages[page_num]) for each page_num of a list:
\* the pages of the written document
RECURSIVE add_pages(_, _, _)
add_pages(reader_pages, page_nums, written) ==
    IF page_nums = <<>> THEN Return(written)
    ELSE IF ~PyIndexOk(reader_pages, Head(page_nums)) THEN Raise("IndexError")
    ELSE add_pages(reader_pages, Tail(page_nums),
                   Append(written, PyIndex(reader_pages, Head(page_nums))))

\* end = start + pages_per_chunk + (1 if i < remainder else 0), with the
\* extra page given to chunk i = remainder as well
chunk_end_inclusive(start, pages_per_chunk, i, remainder) ==
    start + pages_per_chunk + (IF i <= remainder THEN 1 ELSE 0)

\* end = start + pages_per_chunk + (1 if i < remainder else 0)
chunk_end(start, pages_per_chunk, i, remainder) ==
    start + pages_per_chunk + (IF i < remainder THEN 1 ELSE 0)

\* for i in range(chunks): ..., from iteration i on
RECURSIVE chunk_loop(_, _, _, _, _, _, _)
chunk_loop(reader_pages, chunks, pages_per_chunk, remainder, i, start, results) ==
    IF i >= chunks THEN Return(results)
    ELSE LET end == chunk_end(start, pages_per_chunk, i, remainder)
             w == add_pages(reader_pages, PyRange(start, end), <<>>)
         IN  IF ~w.ok THEN w
             ELSE chunk_loop(reader_pages, chunks, pages_per_chunk, remainder,
                             i + 1, end, Append(results, w.val))

service_split_pdf(pdf_data, pages, chunks) ==
    LET pdf_reader == PdfReader(pdf_data) IN
    IF ~pdf_reader.ok THEN pdf_reader
    ELSE LET total_pages == Len(pdf_reader.val) IN
         IF TruthyInt(chunks)
         THEN chunk_loop(pdf_reader.val, chunks[1],
                         PyFloorDiv(total_pages, chunks[1]),
                         PyMod(total_pages, chunks[1]), 0, 0, <<>>)
         ELSE LET page_list == parse_page_ranges(pages, total_pages) IN
              IF ~page_list.ok THEN page_list
              ELSE LET w == add_pages(pdf_reader.val, page_list.val, <<>>) IN
                   IF ~w.ok THEN w ELSE Return(<<w.val>>)

-----------------------------------------------------------------------------
(* POST /pdf/split                                                         *)

\* the argument checks accepting a request unless both values are None
split_arguments_none_only(pages, chunks) ==
    IF pages # None /\ chunks # None
    THEN Raise("HTTPException(400): Provide either 'pages' or 'chunks', not both")
    ELSE IF pages = None /\ chunks = None
    THEN Raise("HTTPException(400): Provide either 'pages' or 'chunks'")
    ELSE Return(TRUE)

\* the argument checks of the handler, lines 169-179
split_arguments(pages, chunks) ==
    IF TruthySeq(pages) /\ TruthyInt(chunks)
    THEN Raise("HTTPException(400): Provide either 'pages' or 'chunks', not both")
    ELSE IF ~TruthySeq(pages) /\ ~TruthyInt(chunks)
    THEN Raise("HTTPException(400): Provide either 'pages' or 'chunks'")
    ELSE Return(TRUE)

\* for i, pdf_data in enumerate(split_pdfs): ... result_files.append(...)
RECURSIVE result_files_loop(_, _, _)
result_files_loop(split_pdfs, i, result_files) ==
    IF i >= Len(split_pdfs) THEN Return(result_files)
    ELSE LET metadata == get_pdf_metadata(split_pdfs[i + 1]) IN
         IF ~metadata.ok THEN metadata
         ELSE result_files_loop(split_pdfs, i + 1,
                 Append(result_files, [pages |-> metadata.val, part |-> i + 1]))

\* the handler's outcome, with what split_pdf returned (None: not called)
SplitOutcome(r, split_pdfs) ==
    [ok |-> r.ok, val |-> r.val, exc |-> r.exc, status |-> r.status,
     split |-> split_pdfs]

\* the handler after split_pdf: the result loop and the response
split_respond_files(files, split_pdfs) ==
    IF ~files.ok THEN SplitOutcome(CatchAll(files), Some(split_pdfs))
    ELSE SplitOutcome(Http200(files.val), Some(split_pdfs))

split_respond(split_pdfs) ==
    IF ~split_pdfs.ok THEN SplitOutcome(CatchAll(split_pdfs), Some(split_pdfs))
    ELSE split_respond_files(result_files_loop(split_pdfs.val, 0, <<>>),
                             split_pdfs)

\* the handler after validate_pdf_file
split_validated(pdf_content, pages, chunks) ==
    IF ~pdf_content.ok THEN SplitOutcome(CatchAll(pdf_content), None)
    ELSE split_respond(service_split_pdf(pdf_content.val, pages, chunks))

\* the handler after the argument checks
split_checked(args, file, pages, chunks) ==
    IF ~args.ok THEN SplitOutcome(CatchAll(args), None)
    ELSE split_validated(validate_pdf_file(file), pages, chunks)

api_split_pdf(file, pages, chunks) ==
    split_checked(split_arguments(pages, chunks), file, pages, chunks)

-----------------------------------------------------------------------------
(* The split requests                                                      *)

MaxSplitPages == 3   \* most pages of an enumerated document to split
MaxPagesLen == 3     \* longest enumerated `pages` form value
MaxChunks == 3       \* largest enumerated |chunks|

SplitAlphabet == {"0", "1", "2", "3", "-", ","}

\* the document of the chunking example
TenPages == Doc(1, 10)

SplitUploads ==
    {Upload(".pdf", PdfBytes(Doc(1, n))) : n \in 0..MaxSplitPages}
    \cup {Upload(".pdf", PdfBytes(TenPages)),
          Upload(".pdf", JunkBytes),
          Upload(".txt", PdfBytes(Doc(1, 1))),
          Upload(".pdf", HugeBytes(Doc(1, 1)))}

SplitPages == {None} \cup {Some(s) : s \in SeqsUpTo(SplitAlphabet, MaxPagesLen)}

SplitChunks == {None} \cup {Some(n) : n \in (0 - MaxChunks)..MaxChunks}

InitSplit ==
    /\ pc = "ready"
    /\ redis = NoRedis
    /\ temp_files = NoTempFiles
    /\ \E f \in SplitUploads, p \in SplitPages, c \in SplitChunks :
            req = [endpoint |-> "/split", file |-> f, pages |-> p, chunks |-> c]
    /\ resp = NoResp

Split ==
    /\ pc = "ready"
    /\ req.endpoint = "/split"
    /\ resp' = api_split_pdf(req.file, req.pages, req.chunks)
    /\ pc' = "done"
    /\ UNCHANGED <<redis, temp_files>>
    /\ UNCHANGED req

NextSplit == Split

SpecSplit == InitSplit /\ [][NextSplit]_vars

-----------------------------------------------------------------------------
(* Claims about split (specification SpecSplit)                            *)

PagesSet == TruthySeq(req.pages)
ChunksSet == TruthyInt(req.chunks)

\* split_pdf was called and returned its list of documents
SplitReturned == pc = "done" /\ resp.split # None /\ resp.split[1].ok
SplitDocs == resp.split[1].val

SourcePages == req.file.content.pages

SplitArgumentError ==
    /\ ~resp.ok
    /\ resp.exc \in
         {"HTTPException(400): Provide either 'pages' or 'chunks', not both",
          "HTTPException(400): Provide either 'pages' or 'chunks'"}

\* C7: split fails with a validation error when both pages and chunks are
\* set and when neither is set (pages = "" and chunks = 0 count as not set);
\* it produces output only when exactly one of them is set.
C7_ExactlyOneOfPagesChunks ==
    pc = "done" =>
        /\ (PagesSet <=> ChunksSet) => (SplitArgumentError /\ resp.split = None)
        /\ (resp.ok \/ resp.split # None) => (PagesSet /\ ~ChunksSet) \/ (~PagesSet /\ ChunksSet)

\* pages = "" supplied as the only argument is refused
C7_Witness ==
    /\ pc = "done"
    /\ req.pages = Some(<<>>)
    /\ req.chunks = None
    /\ validate_pdf_file(req.file).ok
    /\ SplitArgumentError

RECURSIVE SumLens(_)
SumLens(ls) == IF ls = <<>> THEN 0 ELSE Len(Head(ls)) + SumLens(Tail(ls))

\* C8: in chunks mode with chunks >= 1 split returns exactly `chunks`
\* documents; document i (0-based) has floor(total/chunks) pages plus one iff
\* i < total mod chunks; the documents are contiguous and in page order, so
\* their concatenation is the source; 10 pages in 3 chunks give [4,3,3].
C8_ChunkSizes ==
    (pc = "done" /\ resp.split # None /\ ChunksSet /\ req.chunks[1] >= 1)
    => LET total == Len(SourcePages)
           n == req.chunks[1]
       IN  /\ resp.split[1].ok
           /\ Len(SplitDocs) = n
           /\ \A i \in 0..(n - 1) :
                Len(SplitDocs[i + 1]) =
                    (total \div n) + (IF i < total % n THEN 1 ELSE 0)
           /\ Concat(SplitDocs) = SourcePages
           /\ (total = 10 /\ n = 3)
                => [i \in 1..3 |-> Len(SplitDocs[i])] = <<4, 3, 3>>

C8_Witness ==
    /\ SplitReturned
    /\ SourcePages = TenPages
    /\ req.chunks = Some(3)
    /\ [i \in 1..Len(SplitDocs) |-> Len(SplitDocs[i])] = <<4, 3, 3>>

\* C9: whenever split returns in chunks mode (any non-zero chunks, also
\* larger than total or negative), the page counts of the output documents
\* sum to the input's page count and any two differ by at most 1.
C9_ChunksPartition ==
    (SplitReturned /\ ChunksSet)
    => /\ SumLens(SplitDocs) = Len(SourcePages)
       /\ \A i, j \in 1..Len(SplitDocs) :
            Len(SplitDocs[i]) - Len(SplitDocs[j]) <= 1

\* the indices the expression selects among the pages of the document
Selected(expr, total) == Resolve(expr, total) \cap 0..(total - 1)

\* C10: in pages mode split returns exactly one document, made of the source
\* pages whose 0-based indices the expression selects, each once, in
\* ascending source order, for every accepted expression.  (Stated for
\* documents of at least one page.)
C10_PagesModeSelection ==
    (pc = "done" /\ resp.split # None /\ PagesSet /\ ~ChunksSet
        /\ SourcePages # <<>>
        /\ parse_page_ranges(req.pages, Len(SourcePages)).ok)
    => LET sel == SortedOfSet(Selected(req.pages, Len(SourcePages))) IN
       /\ resp.split[1].ok
       /\ Len(SplitDocs) = 1
       /\ SplitDocs[1] = [k \in 1..Len(sel) |-> SourcePages[sel[k] + 1]]

-----------------------------------------------------------------------------
(* PDFService.rotate_pdf                                                   *)

\* a page with its /Rotate entry; num tells the pages of a document apart
RotPage(k, r) == [num |-> k, rotate |-> r]

\* page.rotate(angle) of PyPDF2's PageObject: the angle must be a multiple
\* of 90 and is added to the page's /Rotate entry; the sum is stored as it
\* is, without reduction modulo 360
page_rotate(page, angle) ==
    IF angle % 90 # 0
    THEN Raise("ValueError: Rotation angle must be a multiple of 90")
    ELSE Return([page EXCEPT !.rotate = @ + angle])

\* every page taken as selected
in_every_selection(page_num, pages_to_rotate) == TRUE

\* if page_num in pages_to_rotate
in_pages_to_rotate(page_num, pages_to_rotate) ==
    page_num \in Elems(pages_to_rotate)

\* for page_num in range(total_pages): rotate if selected, add_page
rotate_loop(pdf_pages, pages_to_rotate, angle) ==
    IF \E k \in 1..Len(pdf_pages) :
            /\ in_pages_to_rotate(k - 1, pages_to_rotate)
            /\ ~page_rotate(pdf_pages[k], angle).ok
    THEN Raise("ValueError: Rotation angle must be a multiple of 90")
    ELSE Return([k \in 1..Len(pdf_pages) |->
                    IF in_pages_to_rotate(k - 1, pages_to_rotate)
                    THEN page_rotate(pdf_pages[k], angle).val
                    ELSE pdf_pages[k]])

\* parse_page_ranges(pages, total_pages) if pages else range(total_pages)
pages_or_all(pages, total_pages) ==
    IF TruthySeq(pages) THEN parse_page_ranges(pages, total_pages)
    ELSE Return(PyRange(0, total_pages))

rotate_resolved(pdf_pages, pages_to_rotate, angle) ==
    IF ~pages_to_rotate.ok THEN pages_to_rotate
    ELSE rotate_loop(pdf_pages, pages_to_rotate.val, angle)

rotate_read(pdf_reader, angle, pages) ==
    IF ~pdf_reader.ok THEN pdf_reader
    ELSE rotate_resolved(pdf_reader.val,
                         pages_or_all(pages, Len(pdf_reader.val)), angle)

service_rotate_pdf(pdf_data, angle, pages) ==
    rotate_read(PdfReader(pdf_data), angle, pages)

-----------------------------------------------------------------------------
(* POST /pdf/rotate                                                        *)

\* a check that lets every multiple of 90 through
angle_multiple_of_90(angle) == angle % 90 = 0

\* angle in [90, 180, 270]
angle_allowed(angle) == angle \in {90, 180, 270}

\* RotatePDFRequest.validate_angle
validate_angle(v) ==
    IF v \notin {90, 180, 270}
    THEN Raise("ValueError: Angle must be 90, 180, or 270")
    ELSE Return(v)

\* the tail the single-document handlers share: read the metadata of the
\* produced document, answer 200 with it
describe_and_respond(produced, metadata) ==
    IF ~metadata.ok THEN CatchAll(metadata) ELSE Http200(produced)

respond_with(produced) ==
    IF ~produced.ok THEN CatchAll(produced)
    ELSE describe_and_respond(produced.val, get_pdf_metadata(produced.val))

rotate_validated(pdf_content, angle, pages) ==
    IF ~pdf_content.ok THEN CatchAll(pdf_content)
    ELSE respond_with(service_rotate_pdf(pdf_content.val, angle, pages))

api_rotate_pdf(file, angle, pages) ==
    IF ~angle_allowed(angle)
    THEN CatchAll(Raise("HTTPException(400): Angle must be 90, 180, or 270"))
    ELSE rotate_validated(validate_pdf_file(file), angle, pages)

-----------------------------------------------------------------------------
(* Rotation: Init draws a /rotate request; the handler answers it; the     *)
(* client may send the same request again with the document it got back.   *)

MaxRotatePages == 2      \* most pages of a document sent to /rotate
MaxRotateExprLen == 3    \* longest enumerated expression sent to /rotate
MaxRotateCalls == 4      \* most successive calls on one document

Rotations == {0, 90, 180, 270}

RotateDocs ==
    UNION {{[k \in 1..n |-> RotPage(k, f[k])] : f \in [1..n -> Rotations]} :
                n \in 1..MaxRotatePages}

RotateUploads ==
    {Upload(".pdf", PdfBytes(d)) : d \in RotateDocs}
    \cup {Upload(".pdf", JunkBytes),
          Upload(".txt", PdfBytes(<<RotPage(1, 0)>>))}

RotateAngles == {0, 45, 90, 180, 270, 360, 0 - 90}

RotateAlphabet == {"0", "1", "2", "-", ","}

RotatePages ==
    {None} \cup {Some(s) : s \in SeqsUpTo(RotateAlphabet, MaxRotateExprLen)}

InitRotate ==
    /\ pc = "ready"
    /\ redis = NoRedis
    /\ temp_files = NoTempFiles
    /\ \E f \in RotateUploads, a \in RotateAngles, p \in RotatePages :
            req = [endpoint |-> "/rotate", file |-> f, angle |-> a,
                   pages |-> p, calls |-> 1, original |-> f.content.pages]
    /\ resp = NoResp

Rotate ==
    /\ pc = "ready"
    /\ req.endpoint = "/rotate"
    /\ resp' = api_rotate_pdf(req.file, req.angle, req.pages)
    /\ pc' = "done"
    /\ UNCHANGED <<redis, temp_files>>
    /\ UNCHANGED req

\* the client uploads the rotated document with the same angle and pages
RotateAgain ==
    /\ pc = "done"
    /\ req.endpoint = "/rotate"
    /\ resp.ok
    /\ req.calls < MaxRotateCalls
    /\ req' = [req EXCEPT !.file = Upload(".pdf", PdfBytes(resp.val)),
                          !.calls = @ + 1]
    /\ pc' = "ready"
    /\ UNCHANGED <<redis, temp_files>>
    /\ resp' = NoResp

NextRotate == Rotate \/ RotateAgain

SpecRotate == InitRotate /\ [][NextRotate]_vars

-----------------------------------------------------------------------------
(* Claims about rotate                                                     *)

RotateSource == req.file.content.pages

RotateReturned == pc = "done" /\ req.endpoint = "/rotate" /\ resp.ok

\* the 0-based indices of the pages the request selects
RotateSelected ==
    IF TruthySeq(req.pages) THEN Selected(req.pages, Len(RotateSource))
    ELSE 0..(Len(RotateSource) - 1)

\* C11: for every angle outside {90, 180, 270} (0, 45, 360, -90, ...) the
\* rotate request fails with the angle's validation error and produces no
\* document; the handler is the only caller of PDFService.rotate_pdf, and
\* the request model's validator rejects the same angles.
C11_RejectsOtherAngles ==
    (pc = "done" /\ req.endpoint = "/rotate" /\ req.angle \notin {90, 180, 270})
    => /\ ~resp.ok
       /\ resp.val = <<>>
       /\ resp.exc = "HTTPException(400): Angle must be 90, 180, or 270"
       /\ ~validate_angle(req.angle).ok

\* a readable document and a multiple of 90 outside the allowed angles
C11_Witness ==
    /\ pc = "done"
    /\ req.file = Upload(".pdf", PdfBytes(<<RotPage(1, 0)>>))
    /\ req.angle = 360
    /\ req.pages = None
    /\ resp.exc = "HTTPException(400): Angle must be 90, 180, or 270"

\* C12: after rotate(angle) the rotation of a selected page is
\* (previous + angle) mod 360, so the stored value stays in
\* {0, 90, 180, 270} after any sequence of calls, and four rotations of all
\* pages by 90 restore the original document.
C12_CumulativeMod360 ==
    RotateReturned =>
        /\ \A k \in 1..Len(resp.val) : resp.val[k].rotate \in Rotations
        /\ \A k \in 1..Len(resp.val) :
              (k - 1) \in RotateSelected
                => resp.val[k].rotate
                     = (RotateSource[k].rotate + req.angle) % 360
        /\ (req.calls = 4 /\ req.angle = 90 /\ ~TruthySeq(req.pages))
                => resp.val = req.original

\* C13: rotate keeps the page count and the page order, changes the rotation
\* of exactly the pages whose index the expression selects (all pages
\* without an expression) and copies every other page unchanged; when the
\* expression selects no page, the document is returned as it was.
C13_RotateFrame ==
    RotateReturned =>
        /\ Len(resp.val) = Len(RotateSource)
        /\ \A k \in 1..Len(resp.val) :
              /\ resp.val[k].num = RotateSource[k].num
              /\ (resp.val[k].rotate # RotateSource[k].rotate)
                    <=> ((k - 1) \in RotateSelected)
              /\ (k - 1) \notin RotateSelected
                    => resp.val[k] = RotateSource[k]
        /\ (RotateSelected = {} => resp.val = RotateSource)

\* page 2 of two is selected, page 1 is not
C13_Witness ==
    /\ RotateReturned
    /\ RotateSource = <<RotPage(1, 0), RotPage(2, 90)>>
    /\ req.pages = Some(<<"2">>)
    /\ req.angle = 90
    /\ resp.val = <<RotPage(1, 0), RotPage(2, 180)>>

-----------------------------------------------------------------------------
(* PDFService.add_watermark                                                *)

\* a page with the overlays inserted into it, oldest first
WmPage(k) == [num |-> k, marks |-> <<>>]

\* the bytes of an image file
PngBytes == [magic |-> "PNG", size |-> 1, pages |-> <<>>]
EmptyBytes == [magic |-> "", size |-> 0, pages |-> <<>>]

\* bool(x) of an Optional[bytes]: None and b"" are falsy
TruthyBytes(o) == o # None /\ o[1].size # 0

\* page.insert_text(..., overlay=True, opacity=opacity)
insert_text(page, text, position, opacity) ==
    [page EXCEPT !.marks = Append(@, [kind |-> "text", content |-> text,
                                       position |-> position,
                                       opacity |-> opacity])]

\* img = fitz.open(stream=image_data, filetype="png"); page.insert_image(...)
insert_image(page, image_data, position, opacity) ==
    IF image_data.magic # "PNG" THEN Raise("FileDataError")
    ELSE Return([page EXCEPT !.marks =
                    Append(@, [kind |-> "image", content |-> image_data.magic,
                               position |-> position, opacity |-> opacity])])

\* the body of the loop for one page: if text: ... elif image_data: ...
watermark_page(page, text, image_data, position, opacity) ==
    IF TruthySeq(text)
    THEN Return(insert_text(page, text[1], position, opacity))
    ELSE IF TruthyBytes(image_data)
    THEN insert_image(page, image_data[1], position, opacity)
    ELSE Return(page)

\* pdf_document[page_num] of PyMuPDF: a negative number counts from the end,
\* a number >= the page count is not in the document
load_page_ok(pdf_document, page_num) ==
    pdf_document # <<>> /\ page_num < Len(pdf_document)
load_page_index(pdf_document, page_num) ==
    (page_num % Len(pdf_document)) + 1

RECURSIVE watermark_loop(_, _, _, _, _, _)

watermark_store(pdf_document, k, page, rest, text, image_data, position, opacity) ==
    IF ~page.ok THEN page
    ELSE watermark_loop([pdf_document EXCEPT ![k] = page.val], rest, text,
                        image_data, position, opacity)

\* for page_num in pages_to_watermark
watermark_loop(pdf_document, pages_to_watermark, text, image_data, position, opacity) ==
    IF pages_to_watermark = <<>> THEN Return(pdf_document)
    ELSE IF ~load_page_ok(pdf_document, Head(pages_to_watermark))
    THEN Raise("IndexError: page not in document")
    ELSE watermark_store(
            pdf_document,
            load_page_index(pdf_document, Head(pages_to_watermark)),
            watermark_page(
                pdf_document[load_page_index(pdf_document,
                                             Head(pages_to_watermark))],
                text, image_data, position, opacity),
            Tail(pages_to_watermark), text, image_data, position, opacity)

watermark_resolved(pdf_document, pages_to_watermark, text, image_data, position, opacity) ==
    IF ~pages_to_watermark.ok THEN pages_to_watermark
    ELSE watermark_loop(pdf_document, pages_to_watermark.val, text,
                        image_data, position, opacity)

\* fitz.open(stream=pdf_data, filetype="pdf")
fitz_open(pdf_data) ==
    IF pdf_data.magic = "%PDF" THEN Return(pdf_data.pages)
    ELSE Raise("FileDataError")

watermark_opened(pdf_document, text, image_data, opacity, position, pages) ==
    IF ~pdf_document.ok THEN pdf_document
    ELSE watermark_resolved(pdf_document.val,
                            pages_or_all(pages, Len(pdf_document.val)),
                            text, image_data, position, opacity)

service_add_watermark(pdf_data, text, image_data, opacity, position, pages) ==
    watermark_opened(fitz_open(pdf_data), text, image_data, opacity, position,
                     pages)

-----------------------------------------------------------------------------
(* dependencies.py: validate_image_file                                    *)

validate_image_file(file) ==
    IF ~validate_file_extension(file.ext,
            {".jpg", ".jpeg", ".png", ".gif", ".bmp", ".tiff"})
    THEN Raise("HTTPException(400): Invalid file type")
    ELSE IF ~validate_file_size(file.content.size)
    THEN Raise("HTTPException(413): File too large")
    ELSE Return(file.content)

-----------------------------------------------------------------------------
(* POST /pdf/watermark                                                     *)

\* opacity is counted in hundredths: 0.5 is 50 and 1 is 100

\* the input checks with only the missing-watermark check on text and image
watermark_inputs_neither_only(text, image, opacity, position) ==
    IF ~TruthySeq(text) /\ image = None
    THEN Raise("HTTPException(400): Provide either text or image watermark")
    ELSE IF opacity < 0 \/ opacity > 100
    THEN Raise("HTTPException(400): Opacity must be between 0 and 1")
    ELSE IF position \notin {"center", "top-left", "top-right",
                             "bottom-left", "bottom-right"}
    THEN Raise("HTTPException(400): Invalid position")
    ELSE Return(TRUE)

\* the input checks of the handler, lines 374-397
watermark_inputs(text, image, opacity, position) ==
    IF ~TruthySeq(text) /\ image = None
    THEN Raise("HTTPException(400): Provide either text or image watermark")
    ELSE IF TruthySeq(text) /\ image # None
    THEN Raise("HTTPException(400): Provide either text or image watermark, not both")
    ELSE IF opacity < 0 \/ opacity > 100
    THEN Raise("HTTPException(400): Opacity must be between 0 and 1")
    ELSE IF position \notin {"center", "top-left", "top-right",
                             "bottom-left", "bottom-right"}
    THEN Raise("HTTPException(400): Invalid position")
    ELSE Return(TRUE)

\* image_data = None; if image: image_data = await validate_image_file(image)
watermark_image_data(image) ==
    IF image = None THEN Return(None)
    ELSE IF ~validate_image_file(image[1]).ok THEN validate_image_file(image[1])
    ELSE Return(Some(validate_image_file(image[1]).val))

watermark_with_image(pdf_content, text, image_data, opacity, position, pages) ==
    IF ~image_data.ok THEN CatchAll(image_data)
    ELSE respond_with(service_add_watermark(pdf_content, text, image_data.val,
                                            opacity, position, pages))

watermark_validated(pdf_content, text, image, opacity, position, pages) ==
    IF ~pdf_content.ok THEN CatchAll(pdf_content)
    ELSE watermark_with_image(pdf_content.val, text,
                              watermark_image_data(image), opacity, position,
                              pages)

watermark_checked(inputs, file, text, image, opacity, position, pages) ==
    IF ~inputs.ok THEN CatchAll(inputs)
    ELSE watermark_validated(validate_pdf_file(file), text, image, opacity,
                             position, pages)

api_add_watermark(file, text, image, opacity, position, pages) ==
    watermark_checked(watermark_inputs(text, image, opacity, position),
                      file, text, image, opacity, position, pages)

-----------------------------------------------------------------------------
(* Watermark: Init draws a /watermark request, the handler answers it      *)

MaxWatermarkPages == 2     \* most pages of a document sent to /watermark
MaxWatermarkExprLen == 3   \* longest enumerated expression sent to /watermark

WatermarkUploads ==
    {Upload(".pdf", PdfBytes([k \in 1..n |-> WmPage(k)])) :
            n \in 1..MaxWatermarkPages}
    \cup {Upload(".pdf", JunkBytes)}

WatermarkTexts == {None, Some(<<>>), Some(<<"D", "R", "A", "F", "T">>)}

WatermarkImages ==
    {None, Some(Upload(".png", PngBytes)), Some(Upload(".png", EmptyBytes)),
     Some(Upload(".png", JunkBytes)), Some(Upload(".exe", PngBytes))}

WatermarkOpacities == {0 - 1, 50, 101}

WatermarkPositions == {"center", "bottom-right", "middle"}

WatermarkPages ==
    {None} \cup {Some(s) : s \in SeqsUpTo(RotateAlphabet, MaxWatermarkExprLen)}

InitWatermark ==
    /\ pc = "ready"
    /\ redis = NoRedis
    /\ temp_files = NoTempFiles
    /\ \E f \in WatermarkUploads, t \in WatermarkTexts, i \in WatermarkImages,
          o \in WatermarkOpacities, w \in WatermarkPositions,
          p \in WatermarkPages :
            req = [endpoint |-> "/watermark", file |-> f, text |-> t,
                   image |-> i, opacity |-> o, position |-> w, pages |-> p]
    /\ resp = NoResp

Watermark ==
    /\ pc = "ready"
    /\ req.endpoint = "/watermark"
    /\ resp' = api_add_watermark(req.file, req.text, req.image, req.opacity,
                                 req.position, req.pages)
    /\ pc' = "done"
    /\ UNCHANGED <<redis, temp_files>>
    /\ UNCHANGED req

NextWatermark == Watermark

SpecWatermark == InitWatermark /\ [][NextWatermark]_vars

-----------------------------------------------------------------------------
(* Claims about watermark                                                  *)

WatermarkDone == pc = "done" /\ req.endpoint = "/watermark"

TextSupplied == TruthySeq(req.text)
ImageSupplied == req.image # None

\* C14: a watermark request with both a text and an image, and one with
\* neither (an empty text counting as none), fails with the validation error
\* of that case and returns no document; a document is returned only when
\* exactly one of the two is supplied.
C14_ExactlyOneOfTextImage ==
    WatermarkDone =>
        /\ (TextSupplied /\ ImageSupplied)
              => /\ ~resp.ok
                 /\ resp.val = <<>>
                 /\ resp.exc = "HTTPException(400): Provide either text or image watermark, not both"
        /\ (~TextSupplied /\ ~ImageSupplied)
              => /\ ~resp.ok
                 /\ resp.val = <<>>
                 /\ resp.exc = "HTTPException(400): Provide either text or image watermark"
        /\ resp.ok => (TextSupplied /\ ~ImageSupplied)
                        \/ (~TextSupplied /\ ImageSupplied)

\* an empty text and no image, everything else in order
C14_Witness ==
    /\ WatermarkDone
    /\ req.file = Upload(".pdf", PdfBytes(<<WmPage(1)>>))
    /\ req.text = Some(<<>>)
    /\ req.image = None
    /\ req.opacity = 50
    /\ req.position = "center"
    /\ resp.exc = "HTTPException(400): Provide either text or image watermark"

WatermarkSource == req.file.content.pages

\* the 0-based indices of the pages the request selects
WatermarkSelected ==
    IF TruthySeq(req.pages) THEN Selected(req.pages, Len(WatermarkSource))
    ELSE 0..(Len(WatermarkSource) - 1)

\* C15: a returned watermarked document has the pages of the source in the
\* same order; every page the expression selects (every page without an
\* expression) has exactly one overlay more than before, and every page it
\* does not select is unchanged.  (Stated for a text watermark, which always
\* draws.)
C15_WatermarkFrame ==
    (WatermarkDone /\ resp.ok /\ TextSupplied) =>
        /\ Len(resp.val) = Len(WatermarkSource)
        /\ \A k \in 1..Len(resp.val) :
              /\ resp.val[k].num = WatermarkSource[k].num
              /\ (k - 1) \in WatermarkSelected
                    => Len(resp.val[k].marks)
                         = Len(WatermarkSource[k].marks) + 1
              /\ (k - 1) \notin WatermarkSelected
                    => resp.val[k] = WatermarkSource[k]

-----------------------------------------------------------------------------
(* PDFService.secure_pdf                                                   *)

Str_print == <<"p", "r", "i", "n", "t">>
Str_modify == <<"m", "o", "d", "i", "f", "y">>
Str_copy == <<"c", "o", "p", "y">>
Str_annotate == <<"a", "n", "n", "o", "t", "a", "t", "e">>
Str_fill_forms == <<"f", "i", "l", "l", "_", "f", "o", "r", "m", "s">>
Str_extract == <<"e", "x", "t", "r", "a", "c", "t">>
Str_assemble == <<"a", "s", "s", "e", "m", "b", "l", "e">>
Str_print_high_quality ==
    <<"p", "r", "i", "n", "t", "_", "h", "i", "g", "h", "_",
      "q", "u", "a", "l", "i", "t", "y">>

\* a | b read as a + b
BitAdd(a, b) == a + b

\* a | b of two non-negative integers
RECURSIVE BitOr(_, _)
BitOr(a, b) ==
    IF a = 0 THEN b
    ELSE IF b = 0 THEN a
    ELSE (IF a % 2 = 1 \/ b % 2 = 1 THEN 1 ELSE 0)
            + 2 * BitOr(a \div 2, b \div 2)

\* the keys of permission_mapping
permission_names == {Str_print, Str_modify, Str_copy, Str_annotate}

\* permission_mapping[perm]: the bits PRINT, MODIFY, EXTRACT and
\* ADD_OR_MODIFY of PyPDF2.constants.UserAccessPermissions
permission_mapping(perm) ==
    CASE perm = Str_print -> 4
      [] perm = Str_modify -> 8
      [] perm = Str_copy -> 16
      [] perm = Str_annotate -> 32

\* for perm in permissions: if perm in permission_mapping: flags |= ...
RECURSIVE permission_loop(_, _)
permission_loop(permissions, permission_flags) ==
    IF permissions = <<>> THEN permission_flags
    ELSE IF Head(permissions) \in permission_names
    THEN permission_loop(Tail(permissions),
                         BitOr(permission_flags,
                               permission_mapping(Head(permissions))))
    ELSE permission_loop(Tail(permissions), permission_flags)

\* pdf_writer.encrypt(...) and write: the pages with the encryption
\* dictionary the writer was given
secure_encrypt(pdf_pages, user_password, owner_password, permissions, encryption_level) ==
    Return([pages |-> pdf_pages,
            encrypt |-> [user_password |-> user_password,
                         owner_password |-> owner_password,
                         use_128bit |-> (encryption_level = 128),
                         permissions_flag |-> permission_loop(permissions, 0)]])

secure_read(pdf_reader, user_password, owner_password, permissions, encryption_level) ==
    IF ~pdf_reader.ok THEN pdf_reader
    ELSE secure_encrypt(pdf_reader.val, user_password, owner_password,
                        permissions, encryption_level)

service_secure_pdf(pdf_data, user_password, owner_password, permissions, encryption_level) ==
    secure_read(PdfReader(pdf_data), user_password, owner_password,
                permissions, encryption_level)

\* get_pdf_metadata of an encrypted document: PdfReader opens it with the
\* empty password, so a document with a user password cannot be read
get_secured_metadata(secured) ==
    IF TruthySeq(secured.encrypt.user_password)
    THEN Raise("FileNotDecryptedError: File has not been decrypted")
    ELSE get_pdf_metadata(secured.pages)

-----------------------------------------------------------------------------
(* POST /pdf/secure                                                        *)

\* a check that lets every level through
level_any(encryption_level) == TRUE

\* encryption_level in [40, 128]
level_allowed(encryption_level) == encryption_level \in {40, 128}

\* SecurePDFRequest.validate_encryption
validate_encryption(v) ==
    IF v \notin {40, 128}
    THEN Raise("ValueError: Encryption level must be 40 or 128")
    ELSE Return(v)

\* [p.strip() for p in permissions.split(',')]
split_permissions(permissions) ==
    [k \in 1..Len(PySplit(permissions, ",")) |->
        PyStrip(PySplit(permissions, ",")[k])]

\* the permission block of the handler, lines 474-483
parse_permissions(permissions) ==
    IF ~TruthySeq(permissions) THEN Return(<<>>)
    ELSE IF \E p \in Elems(split_permissions(permissions[1])) :
                p \notin permission_names
    THEN Raise("HTTPException(400): Invalid permissions")
    ELSE Return(split_permissions(permissions[1]))

\* the handler's outcome and the document pdf_service.secure_pdf returned,
\* if it was reached
SecureOutcome(r, secured) ==
    [ok |-> r.ok, val |-> r.val, exc |-> r.exc, status |-> r.status,
     secured |-> secured]

secure_described(secured, metadata) ==
    IF ~metadata.ok THEN SecureOutcome(CatchAll(metadata), Some(secured))
    ELSE SecureOutcome(Http200(secured), Some(secured))

secure_respond(secured_pdf) ==
    IF ~secured_pdf.ok THEN SecureOutcome(CatchAll(secured_pdf), None)
    ELSE secure_described(secured_pdf.val,
                          get_secured_metadata(secured_pdf.val))

secure_validated(pdf_content, user_password, owner_password, permission_list, encryption_level) ==
    IF ~pdf_content.ok THEN SecureOutcome(CatchAll(pdf_content), None)
    ELSE secure_respond(service_secure_pdf(pdf_content.val, user_password,
                                           owner_password, permission_list,
                                           encryption_level))

secure_parsed(permission_list, file, user_password, owner_password, encryption_level) ==
    IF ~permission_list.ok THEN SecureOutcome(CatchAll(permission_list), None)
    ELSE secure_validated(validate_pdf_file(file), user_password,
                          owner_password, permission_list.val,
                          encryption_level)

api_secure_pdf(file, user_password, owner_password, permissions, encryption_level) ==
    IF ~level_allowed(encryption_level)
    THEN SecureOutcome(
            CatchAll(Raise("HTTPException(400): Encryption level must be 40 or 128")),
            None)
    ELSE secure_parsed(parse_permissions(permissions), file, user_password,
                       owner_password, encryption_level)

-----------------------------------------------------------------------------
(* Secure: Init draws a /secure request, the handler answers it            *)

MaxPermItems == 3     \* most comma-separated items of a permissions string

SecureUploads ==
    {Upload(".pdf", PdfBytes(Doc(1, 2))), Upload(".pdf", JunkBytes)}

SecureUserPasswords == {None, Some(<<"u">>)}

SecureLevels == {0, 40, 128, 256}

\* what a client may write between two commas
PermItems ==
    {Str_print, Str_modify, Str_copy, Str_annotate, Str_fill_forms,
     Str_extract, Str_assemble, Str_print_high_quality,
     <<" ">> \o Str_print \o <<" ">>, <<"P">> \o Tail(Str_print), <<>>}

\* ','.join(items)
RECURSIVE JoinComma(_)
JoinComma(items) ==
    IF Len(items) = 1 THEN Head(items)
    ELSE Head(items) \o <<",">> \o JoinComma(Tail(items))

SecurePermissions ==
    {None} \cup {Some(JoinComma(items)) :
                    items \in SeqsUpTo(PermItems, MaxPermItems) \ {<<>>}}

\* a longer list: every name, a repetition, spaces around the names
Str_all_permissions ==
    JoinComma(<<Str_annotate, <<" ">> \o Str_copy, Str_print,
                Str_modify \o <<" ">>, Str_copy, Str_print>>)

InitSecure ==
    /\ pc = "ready"
    /\ redis = NoRedis
    /\ temp_files = NoTempFiles
    /\ \E f \in SecureUploads, u \in SecureUserPasswords,
          l \in SecureLevels,
          p \in SecurePermissions \cup {Some(Str_all_permissions)} :
            req = [endpoint |-> "/secure", file |-> f, user_password |-> u,
                   owner_password |-> <<"o">>, permissions |-> p,
                   encryption_level |-> l]
    /\ resp = [ok |-> FALSE, val |-> <<>>, exc |-> "pending", status |-> 0,
               secured |-> None]

Secure ==
    /\ pc = "ready"
    /\ req.endpoint = "/secure"
    /\ resp' = api_secure_pdf(req.file, req.user_password, req.owner_password,
                              req.permissions, req.encryption_level)
    /\ pc' = "done"
    /\ UNCHANGED <<redis, temp_files>>
    /\ UNCHANGED req

NextSecure == Secure

SpecSecure == InitSecure /\ [][NextSecure]_vars

-----------------------------------------------------------------------------
(* Claims about secure                                                     *)

SecureDone == pc = "done" /\ req.endpoint = "/secure"

\* the document was encrypted: pdf_service.secure_pdf returned one
Secured == SecureDone /\ resp.secured # None

\* C16: for every encryption_level other than 40 and 128 the secure request
\* fails with the level's validation error and no document is encrypted (the
\* request model's validator rejects the same levels); a document encrypted
\* at level 128 is encrypted with 128 bits and one at level 40 with 40 bits
\* (use_128bit false).
C16_EncryptionLevel ==
    /\ (SecureDone /\ req.encryption_level \notin {40, 128})
          => /\ ~resp.ok
             /\ resp.secured = None
             /\ resp.exc = "HTTPException(400): Encryption level must be 40 or 128"
             /\ ~validate_encryption(req.encryption_level).ok
    /\ Secured
          => /\ req.encryption_level = 128
                  => resp.secured[1].encrypt.use_128bit
             /\ req.encryption_level = 40
                  => ~resp.secured[1].encrypt.use_128bit

\* a readable document, no permissions, level 256
C16_Witness ==
    /\ SecureDone
    /\ req.file = Upload(".pdf", PdfBytes(Doc(1, 2)))
    /\ req.permissions = None
    /\ req.encryption_level = 256
    /\ resp.exc = "HTTPException(400): Encryption level must be 40 or 128"

\* the names a permissions string lists
ListedNames ==
    IF TruthySeq(req.permissions)
    THEN Elems(split_permissions(req.permissions[1]))
    ELSE {}

\* the bits of a set of names, each name once
BitsOf(names) ==
    (IF Str_print \in names THEN 4 ELSE 0)
    + (IF Str_modify \in names THEN 8 ELSE 0)
    + (IF Str_copy \in names THEN 16 ELSE 0)
    + (IF Str_annotate \in names THEN 32 ELSE 0)

\* C17: a permissions string listing a name outside {print, modify, copy,
\* annotate} (fill_forms, extract, assemble, print_high_quality, ...) makes
\* the secure request fail with a validation error, and nothing is
\* encrypted; otherwise the flags given to the encryption are the bitwise OR
\* of the bits of the listed names, whatever their order and repetitions,
\* and 0 when no name is listed.
C17_PermissionFlags ==
    /\ (SecureDone /\ ~(ListedNames \subseteq permission_names))
          => /\ ~resp.ok
             /\ resp.secured = None
             /\ req.encryption_level \in {40, 128}
                  => resp.exc = "HTTPException(400): Invalid permissions"
    /\ Secured
          => resp.secured[1].encrypt.permissions_flag = BitsOf(ListedNames)

\* every name, print and copy twice, not in the order of their bits
C17_Witness ==
    /\ Secured
    /\ req.permissions = Some(Str_all_permissions)
    /\ resp.secured[1].encrypt.permissions_flag = 60

-----------------------------------------------------------------------------
(* Fractions: a Python float that is a quotient of integers is the pair    *)
(* <<numerator, denominator>> with a positive denominator                  *)

RECURSIVE Gcd(_, _)
Gcd(a, b) == IF b = 0 THEN a ELSE Gcd(b, a % b)
Abs(a) == IF a < 0 THEN 0 - a ELSE a
Lcm(a, b) == (a \div Gcd(a, b)) * b

\* n / d in lowest terms
Rat(n, d) == <<n \div Gcd(Abs(n), d), d \div Gcd(Abs(n), d)>>
RatInt(n) == <<n, 1>>
\* the numerator of p over the denominator d, a multiple of p's own
RatOver(p, d) == p[1] * (d \div p[2])
RatLe(p, q) == RatOver(p, Lcm(p[2], q[2])) <= RatOver(q, Lcm(p[2], q[2]))
RatEq(p, q) == RatLe(p, q) /\ RatLe(q, p)
RatMax(p, q) == IF RatLe(p, q) THEN q ELSE p
RatMin(p, q) == IF RatLe(p, q) THEN p ELSE q
RatMul(p, q) ==
    Rat((p[1] \div Gcd(Abs(p[1]), q[2])) * (q[1] \div Gcd(Abs(q[1]), p[2])),
        (p[2] \div Gcd(Abs(q[1]), p[2])) * (q[2] \div Gcd(Abs(p[1]), q[2])))
RatAdd(p, q) ==
    Rat(RatOver(p, Lcm(p[2], q[2])) + RatOver(q, Lcm(p[2], q[2])),
        Lcm(p[2], q[2]))
RatSub(p, q) ==
    Rat(RatOver(p, Lcm(p[2], q[2])) - RatOver(q, Lcm(p[2], q[2])),
        Lcm(p[2], q[2]))
RatHalf(p) == Rat(p[1], 2 * p[2])
\* int(p) of a non-negative fraction
RatFloor(p) == p[1] \div p[2]

-----------------------------------------------------------------------------
(* PDFService.compress_pdf                                                 *)

\* an embedded image object: n counts the components of a pixel, alpha
\* included; encoded counts how often its stream was replaced
ImageObject(cs, n, alpha, width, height) ==
    [cs |-> cs, n |-> n, alpha |-> alpha, width |-> width, height |-> height,
     filter |-> "FlateDecode", quality |-> 0, encoded |-> 0]

\* compression_settings.get(compression_level, compression_settings["medium"])
image_quality(compression_level) ==
    CASE compression_level = "low" -> 85
      [] compression_level = "medium" -> 70
      [] compression_level = "high" -> 50
      [] compression_level = "extreme" -> 30
      [] OTHER -> 70

\* pix.n - pix.alpha < 4  # GRAY or RGB
gray_or_rgb(pix) == pix.n - pix.alpha < 4

\* min(target_dpi / pix.width, target_dpi / pix.height)
rescale_factor(pix, target_dpi) ==
    RatMin(Rat(target_dpi, pix.width), Rat(target_dpi, pix.height))

\* lines 181-184: the pixmap without alpha, both sides multiplied by factor
reduce_resolution(pix, target_dpi) ==
    IF pix.width > target_dpi \/ pix.height > target_dpi
    THEN [pix EXCEPT
            !.n = pix.n - pix.alpha,
            !.alpha = 0,
            !.width = RatFloor(RatMul(RatInt(pix.width),
                                      rescale_factor(pix, target_dpi))),
            !.height = RatFloor(RatMul(RatInt(pix.height),
                                       rescale_factor(pix, target_dpi)))]
    ELSE pix

\* lines 187-191: the JPEG of the pixmap becomes the stream of the object
replace_stream(pix, quality) ==
    [pix EXCEPT !.filter = "DCTDecode", !.quality = quality,
                !.encoded = @ + 1]

\* the body of the inner loop for one entry of page.get_images()
compress_image(pix, target_dpi, quality) ==
    IF gray_or_rgb(pix)
    THEN replace_stream(reduce_resolution(pix, target_dpi), quality)
    ELSE pix

\* for page_num ...: for img_index, img in enumerate(image_list): the
\* entries of all pages in turn, each acting on the object table
RECURSIVE compress_loop(_, _, _, _)
compress_loop(image_refs, objects, target_dpi, quality) ==
    IF image_refs = <<>> THEN objects
    ELSE compress_loop(
            Tail(image_refs),
            [objects EXCEPT ![Head(image_refs)] =
                compress_image(objects[Head(image_refs)], target_dpi, quality)],
            target_dpi, quality)

\* a document whose pages list the image objects they show
ImageDoc(page_images, objects) == [pages |-> page_images, objects |-> objects]

compress_opened(pdf_document, compression_level, target_dpi) ==
    IF ~pdf_document.ok THEN pdf_document
    ELSE Return(ImageDoc(pdf_document.val.pages,
                         compress_loop(Concat(pdf_document.val.pages),
                                       pdf_document.val.objects, target_dpi,
                                       image_quality(compression_level))))

service_compress_pdf(pdf_data, compression_level, target_dpi) ==
    compress_opened(fitz_open(pdf_data), compression_level, target_dpi)

-----------------------------------------------------------------------------
(* POST /pdf/compress                                                      *)

\* the input checks of the handler, lines 241-251
compress_inputs(level, dpi) ==
    IF level \notin {"low", "medium", "high", "extreme"}
    THEN Raise("HTTPException(400): Invalid compression level")
    ELSE IF dpi < 72 \/ dpi > 300
    THEN Raise("HTTPException(400): DPI must be between 72 and 300")
    ELSE Return(TRUE)

compress_described(compressed, metadata) ==
    IF ~metadata.ok THEN CatchAll(metadata) ELSE Http200(compressed)

compress_respond(compressed_pdf) ==
    IF ~compressed_pdf.ok THEN CatchAll(compressed_pdf)
    ELSE compress_described(compressed_pdf.val,
                            get_pdf_metadata(compressed_pdf.val.pages))

compress_validated(pdf_content, level, dpi) ==
    IF ~pdf_content.ok THEN CatchAll(pdf_content)
    ELSE compress_respond(service_compress_pdf(pdf_content.val, level, dpi))

compress_checked(inputs, file, level, dpi) ==
    IF ~inputs.ok THEN CatchAll(inputs)
    ELSE compress_validated(validate_pdf_file(file), level, dpi)

api_compress_pdf(file, level, dpi) ==
    compress_checked(compress_inputs(level, dpi), file, level, dpi)

-----------------------------------------------------------------------------
(* Compress: Init draws a /compress request, the handler answers it        *)

MaxCompressPages == 2    \* most pages of a document sent to /compress

\* the images a document may embed
CompressImages ==
    {ImageObject("GRAY", 1, 0, 100, 100),
     ImageObject("RGB", 3, 0, 150, 150),
     ImageObject("RGB", 3, 0, 400, 200),
     ImageObject("RGB", 3, 0, 100, 400),
     ImageObject("RGBA", 4, 1, 400, 400),
     ImageObject("CMYK", 4, 0, 400, 200)}

\* the object numbers of a document's two images
CompressXrefs == {1, 2}

\* page.get_images() of one page: no image, one, or two (also twice the same)
PageImageLists == SeqsUpTo(CompressXrefs, 2)

CompressDocs ==
    {ImageDoc(p, o) :
        p \in UNION {[1..n -> PageImageLists] : n \in 1..MaxCompressPages},
        o \in [CompressXrefs -> CompressImages]}

CompressUploads ==
    {Upload(".pdf", [magic |-> "%PDF", size |-> 1, pages |-> d]) :
            d \in CompressDocs}
    \cup {Upload(".pdf", JunkBytes)}

CompressLevels == {"low", "medium", "high", "extreme", "maximum"}

CompressDpis == {71, 150, 300, 301}

InitCompress ==
    /\ pc = "ready"
    /\ redis = NoRedis
    /\ temp_files = NoTempFiles
    /\ \E f \in CompressUploads, l \in CompressLevels, d \in CompressDpis :
            req = [endpoint |-> "/compress", file |-> f, level |-> l,
                   dpi |-> d]
    /\ resp = NoResp

Compress ==
    /\ pc = "ready"
    /\ req.endpoint = "/compress"
    /\ resp' = api_compress_pdf(req.file, req.level, req.dpi)
    /\ pc' = "done"
    /\ UNCHANGED <<redis, temp_files>>
    /\ UNCHANGED req

NextCompress == Compress

SpecCompress == InitCompress /\ [][NextCompress]_vars

-----------------------------------------------------------------------------
(* Claims about compress                                                   *)

CompressReturned == pc = "done" /\ req.endpoint = "/compress" /\ resp.ok

CompressSource == req.file.content.pages

\* the image objects some page shows
ShownImages(doc) == UNION {Elems(doc.pages[k]) : k \in 1..Len(doc.pages)}

\* the quality of a profile
ProfileQuality(level) ==
    CASE level = "low" -> 85 [] level = "medium" -> 70
      [] level = "high" -> 50 [] level = "extreme" -> 30

\* C18: after compress, the pages and their image lists are those of the
\* source, and every image a page shows, whatever its colour space, has
\* been re-encoded at the profile's quality with its stream replaced; it
\* was scaled by min(target/width, target/height), so that both sides are
\* <= target, if and only if a side exceeded target.
C18_EveryImageRecompressed ==
    CompressReturned =>
        /\ resp.val.pages = CompressSource.pages
        /\ \A x \in ShownImages(CompressSource) :
              LET before == CompressSource.objects[x]
                  after == resp.val.objects[x]
              IN  /\ after.filter = "DCTDecode"
                  /\ after.encoded >= 1
                  /\ after.quality = ProfileQuality(req.level)
                  /\ after.width <= Max(req.dpi, before.width)
                  /\ after.height <= Max(req.dpi, before.height)
                  /\ (before.width > req.dpi \/ before.height > req.dpi)
                        => /\ after.width <= req.dpi
                           /\ after.height <= req.dpi
                           /\ (after.width = req.dpi
                                 \/ after.height = req.dpi)
                  /\ (before.width <= req.dpi /\ before.height <= req.dpi)
                        => /\ after.width = before.width
                           /\ after.height = before.height

\* the same statement for the images that are not CMYK: it holds
GrayAndRgbRecompressed ==
    CompressReturned =>
        /\ resp.val.pages = CompressSource.pages
        /\ \A x \in ShownImages(CompressSource) :
              LET before == CompressSource.objects[x]
                  after == resp.val.objects[x]
              IN  before.cs # "CMYK" =>
                  /\ after.filter = "DCTDecode"
                  /\ after.quality = ProfileQuality(req.level)
                  /\ (before.width > req.dpi \/ before.height > req.dpi)
                        => /\ after.width <= req.dpi
                           /\ after.height <= req.dpi
                           /\ (after.width = req.dpi
                                 \/ after.height = req.dpi)
                  /\ (before.width <= req.dpi /\ before.height <= req.dpi)
                        => /\ after.width = before.width
                           /\ after.height = before.height

-----------------------------------------------------------------------------
(* PDFService.pdf_to_images                                                *)

\* a PIL image: what it shows, its size in pixels and its EXIF orientation
\* tag (0 when it has none)
PilImage(src, width, height, exif) ==
    [src |-> src, width |-> width, height |-> height, exif |-> exif]

\* the bytes of an image file that Image.open can read
ImageBytes(img) == [magic |-> "IMG", size |-> 1, pages |-> <<>>, image |-> img]

\* the rendering of one page at dpi: the pages of the model are US Letter,
\* 612 x 792 points of 1/72 inch
render_page(page, dpi) ==
    PilImage(page, (612 * dpi) \div 72, (792 * dpi) \div 72, 0)

\* convert_from_path that renders from first_page to the end of the document
convert_from_path_to_end(pdf_pages, dpi, first_page, last_page) ==
    [k \in 1..Max(0, Len(pdf_pages) - Max(first_page, 1) + 1) |->
        render_page(pdf_pages[Max(first_page, 1) + k - 1], dpi)]

\* pdf2image.convert_from_path(path, dpi, first_page, last_page): a
\* first_page below 1 is taken as 1, a last_page beyond the page count as
\* the page count, and nothing is rendered when first_page > last_page
convert_from_path(pdf_pages, dpi, first_page, last_page) ==
    [k \in 1..Max(0, Min(last_page, Len(pdf_pages)) - Max(first_page, 1) + 1)
        |-> render_page(pdf_pages[Max(first_page, 1) + k - 1], dpi)]

\* for page_num in page_list: images.extend(convert_from_path(...,
\* first_page=page_num + 1, last_page=page_num + 1))
RECURSIVE convert_pages(_, _, _, _)
convert_pages(pdf_pages, page_list, dpi, images) ==
    IF page_list = <<>> THEN images
    ELSE convert_pages(pdf_pages, Tail(page_list), dpi,
                       images \o convert_from_path(pdf_pages, dpi,
                                                   Head(page_list) + 1,
                                                   Head(page_list) + 1))

\* img.save(output, format=image_format.upper()): Pillow knows PNG and JPEG
\* but no format called JPG
pil_save_ok(image_format) == image_format \in {"png", "jpeg"}

\* lines 494-499: the images written out one by one
save_images(images, image_format) ==
    IF images # <<>> /\ ~pil_save_ok(image_format) THEN Raise("KeyError")
    ELSE Return([k \in 1..Len(images) |-> ImageBytes(images[k])])

to_images_resolved(pdf_pages, page_list, dpi, image_format) ==
    IF ~page_list.ok THEN page_list
    ELSE save_images(convert_pages(pdf_pages, page_list.val, dpi, <<>>),
                     image_format)

\* lines 472-491
to_images_read(pdf_reader, dpi, image_format, pages) ==
    IF ~pdf_reader.ok THEN pdf_reader
    ELSE IF TruthySeq(pages)
    THEN to_images_resolved(pdf_reader.val,
                            parse_page_ranges(pages, Len(pdf_reader.val)),
                            dpi, image_format)
    ELSE save_images(convert_from_path(pdf_reader.val, dpi, 1,
                                       Len(pdf_reader.val)),
                     image_format)

service_pdf_to_images(pdf_data, dpi, image_format, pages) ==
    to_images_read(PdfReader(pdf_data), dpi, image_format, pages)

-----------------------------------------------------------------------------
(* PDFService.images_to_pdf                                                *)

\* reportlab.lib.pagesizes, in points: A4 is 210 mm x 297 mm and A3 is
\* 297 mm x 420 mm, a millimetre being 72 / 25.4 points
page_sizes(page_size) ==
    CASE page_size = "A4" -> <<Rat(210 * 720, 254), Rat(297 * 720, 254)>>
      [] page_size = "A3" -> <<Rat(297 * 720, 254), Rat(420 * 720, 254)>>
      [] page_size = "Letter" -> <<RatInt(612), RatInt(792)>>
      [] page_size = "Legal" -> <<RatInt(612), RatInt(1008)>>
      [] page_size = "Tabloid" -> <<RatInt(792), RatInt(1224)>>
      [] OTHER -> <<Rat(210 * 720, 254), Rat(297 * 720, 254)>>

\* Image.open(io.BytesIO(img_data))
image_open(img_data) ==
    IF img_data.magic = "IMG" THEN Return(img_data.image)
    ELSE Raise("UnidentifiedImageError")

\* lines 534-546: orientations 3, 6 and 8 turn the image by 180, 270 and 90
\* degrees; expand=True exchanges the sides for 270 and 90
auto_orient_image(img, auto_orient) ==
    IF auto_orient /\ img.exif \in {6, 8}
    THEN [img EXCEPT !.width = img.height, !.height = img.width]
    ELSE img

\* the scale with max in the place of min
fit_scale_max(available_width, available_height, img_width, img_height) ==
    RatMax(RatMul(available_width, Rat(1, img_width)),
           RatMul(available_height, Rat(1, img_height)))

\* scale = min(available_width / img_width, available_height / img_height)
fit_scale(available_width, available_height, img_width, img_height) ==
    RatMin(RatMul(available_width, Rat(1, img_width)),
           RatMul(available_height, Rat(1, img_height)))

\* lines 558-568: the rectangle drawn, given the scale
draw_scaled(img, page_dims, margin, available_width, available_height, scale) ==
    [pagesize |-> page_dims,
     image |-> img.src,
     width |-> RatMul(RatInt(img.width), scale),
     height |-> RatMul(RatInt(img.height), scale),
     x |-> RatAdd(RatInt(margin),
                  RatHalf(RatSub(available_width,
                                 RatMul(RatInt(img.width), scale)))),
     y |-> RatAdd(RatInt(margin),
                  RatHalf(RatSub(available_height,
                                 RatMul(RatInt(img.height), scale))))]

\* lines 553-557
draw_available(img, page_dims, margin, available_width, available_height) ==
    draw_scaled(img, page_dims, margin, available_width, available_height,
                fit_scale(available_width, available_height, img.width,
                          img.height))

\* lines 548-568: one page with the image drawn on it
draw_page(img, page_dims, margin) ==
    draw_available(img, page_dims, margin,
                   RatSub(page_dims[1], RatInt(2 * margin)),
                   RatSub(page_dims[2], RatInt(2 * margin)))

\* for img_data in image_data_list: ... c.showPage()
images_to_pdf_loop(image_data_list, page_dims, margin, auto_orient) ==
    IF \E k \in 1..Len(image_data_list) : ~image_open(image_data_list[k]).ok
    THEN Raise("UnidentifiedImageError")
    ELSE Return([k \in 1..Len(image_data_list) |->
                    draw_page(auto_orient_image(
                                  image_open(image_data_list[k]).val,
                                  auto_orient),
                              page_dims, margin)])

service_images_to_pdf(image_data_list, page_size, margin, auto_orient) ==
    images_to_pdf_loop(image_data_list, page_sizes(page_size), margin,
                       auto_orient)

-----------------------------------------------------------------------------
(* POST /pdf/to/images                                                     *)

\* the input checks of the handler, lines 542-554
to_images_inputs(format, dpi) ==
    IF format \notin {"png", "jpeg", "jpg"}
    THEN Raise("HTTPException(400): Invalid format")
    ELSE IF dpi < 72 \/ dpi > 600
    THEN Raise("HTTPException(400): DPI must be between 72 and 600")
    ELSE Return(TRUE)

to_images_respond(images) ==
    IF ~images.ok THEN CatchAll(images) ELSE Http200(images.val)

to_images_validated(pdf_content, format, dpi, pages) ==
    IF ~pdf_content.ok THEN CatchAll(pdf_content)
    ELSE to_images_respond(service_pdf_to_images(pdf_content.val, dpi, format,
                                                 pages))

to_images_checked(inputs, file, format, dpi, pages) ==
    IF ~inputs.ok THEN CatchAll(inputs)
    ELSE to_images_validated(validate_pdf_file(file), format, dpi, pages)

api_pdf_to_images(file, format, dpi, pages) ==
    to_images_checked(to_images_inputs(format, dpi), file, format, dpi, pages)

-----------------------------------------------------------------------------
(* POST /pdf/from/images                                                   *)

\* the input checks of the handler, lines 614-626
from_images_inputs(page_size, margin) ==
    IF page_size \notin {"A4", "A3", "Letter", "Legal", "Tabloid"}
    THEN Raise("HTTPException(400): Invalid page size")
    ELSE IF margin < 0 \/ margin > 100
    THEN Raise("HTTPException(400): Margin must be between 0 and 100")
    ELSE Return(TRUE)

\* for file in files: image_contents.append(await validate_image_file(file))
validate_images(files) ==
    IF \E k \in 1..Len(files) : ~validate_image_file(files[k]).ok
    THEN validate_image_file(
            files[CHOOSE k \in 1..Len(files) :
                    /\ ~validate_image_file(files[k]).ok
                    /\ \A j \in 1..(k - 1) : validate_image_file(files[j]).ok])
    ELSE Return([k \in 1..Len(files) |-> validate_image_file(files[k]).val])

from_images_validated(image_contents, page_size, margin, auto_orient) ==
    IF ~image_contents.ok THEN CatchAll(image_contents)
    ELSE respond_with(service_images_to_pdf(image_contents.val, page_size,
                                            margin, auto_orient))

from_images_checked(inputs, files, page_size, margin, auto_orient) ==
    IF ~inputs.ok THEN CatchAll(inputs)
    ELSE from_images_validated(validate_images(files), page_size, margin,
                               auto_orient)

api_images_to_pdf(files, page_size, margin, auto_orient) ==
    from_images_checked(from_images_inputs(page_size, margin), files,
                        page_size, margin, auto_orient)

-----------------------------------------------------------------------------
(* Images: Init draws a /to/images or a /from/images request; the handler  *)
(* answers it; the client may send the images it got from /to/images to    *)
(* /from/images.                                                           *)

MaxImagePages == 2     \* most pages of a document sent to /to/images
MaxImageExprLen == 3   \* longest enumerated expression sent to /to/images
MaxImages == 2         \* most images of an enumerated /from/images request

ToImagesUploads ==
    {Upload(".pdf", PdfBytes(Doc(1, n))) : n \in 1..MaxImagePages}
    \cup {Upload(".pdf", JunkBytes)}

ToImagesFormats == {"png", "jpeg", "jpg", "gif"}

ToImagesDpis == {71, 72, 200, 601}

ToImagesPages ==
    {None} \cup {Some(s) : s \in SeqsUpTo(RotateAlphabet, MaxImageExprLen)}

\* the sizes and orientation tags of the enumerated images
ImageShapes == {<<1, 1>>, <<3, 1>>, <<2, 5>>}
ImageOrientations == {0, 3, 6}

ImageUploads ==
    {Upload(".png", ImageBytes(PilImage("photo", s[1], s[2], o))) :
            s \in ImageShapes, o \in ImageOrientations}
    \cup {Upload(".png", JunkBytes),
          Upload(".pdf", ImageBytes(PilImage("photo", 1, 1, 0)))}

PageSizeNames == {"A4", "A3", "Letter", "Legal", "Tabloid", "B5"}

Margins == {0 - 1, 0, 36, 100, 101}

\* the extension of the file an image of the given format is stored in
format_suffix(format) ==
    CASE format = "png" -> ".png" [] format = "jpeg" -> ".jpeg"
      [] format = "jpg" -> ".jpg" [] OTHER -> ".bin"

InitImages ==
    /\ pc = "ready"
    /\ redis = NoRedis
    /\ temp_files = NoTempFiles
    /\ \/ \E f \in ToImagesUploads, t \in ToImagesFormats,
             d \in ToImagesDpis, p \in ToImagesPages :
                req = [endpoint |-> "/to/images", file |-> f, format |-> t,
                       dpi |-> d, pages |-> p]
       \/ \E n \in 1..MaxImages :
            \E fs \in [1..n -> ImageUploads], s \in PageSizeNames,
               m \in Margins, a \in BOOLEAN :
                req = [endpoint |-> "/from/images", files |-> fs,
                       page_size |-> s, margin |-> m, auto_orient |-> a,
                       origin |-> None]
    /\ resp = NoResp

ToImages ==
    /\ pc = "ready"
    /\ req.endpoint = "/to/images"
    /\ resp' = api_pdf_to_images(req.file, req.format, req.dpi, req.pages)
    /\ pc' = "done"
    /\ UNCHANGED <<redis, temp_files>>
    /\ UNCHANGED req

FromImages ==
    /\ pc = "ready"
    /\ req.endpoint = "/from/images"
    /\ resp' = api_images_to_pdf(req.files, req.page_size, req.margin,
                                 req.auto_orient)
    /\ pc' = "done"
    /\ UNCHANGED <<redis, temp_files>>
    /\ UNCHANGED req

\* the client sends the images of a document to /from/images
SendImagesBack ==
    /\ pc = "done"
    /\ req.endpoint = "/to/images"
    /\ resp.ok
    /\ resp.val # <<>>
    /\ \E s \in PageSizeNames, m \in Margins, a \in BOOLEAN :
            req' = [endpoint |-> "/from/images",
                    files |-> [k \in 1..Len(resp.val) |->
                                Upload(format_suffix(req.format),
                                       resp.val[k])],
                    page_size |-> s, margin |-> m, auto_orient |-> a,
                    origin |-> Some([pages |-> Len(req.file.content.pages),
                                     all |-> ~TruthySeq(req.pages)])]
    /\ pc' = "ready"
    /\ UNCHANGED <<redis, temp_files>>
    /\ resp' = NoResp

NextImages == ToImages \/ FromImages \/ SendImagesBack

SpecImages == InitImages /\ [][NextImages]_vars

-----------------------------------------------------------------------------
(* Claims about the image conversions                                      *)

ToImagesReturned == pc = "done" /\ req.endpoint = "/to/images" /\ resp.ok

FromImagesReturned == pc = "done" /\ req.endpoint = "/from/images" /\ resp.ok

\* the pages of the source the /to/images request selects, in ascending
\* order of their indices
ToImagesSelectedPages ==
    LET src == req.file.content.pages
        sel == IF TruthySeq(req.pages)
               THEN SortedOfSet(Selected(req.pages, Len(src)))
               ELSE PyRange(0, Len(src))
    IN  [k \in 1..Len(sel) |-> src[sel[k] + 1]]

\* C19: pdf_to_images returns one image per page of the resolved page set,
\* in ascending page order (of every page without an expression);
\* images_to_pdf makes one page per image, in the order of the images; so
\* the images of all pages of a document, sent to images_to_pdf, give a
\* document with as many pages as the original.
C19_OneImagePerPage ==
    /\ ToImagesReturned
          => [k \in 1..Len(resp.val) |-> resp.val[k].image.src]
                = ToImagesSelectedPages
    /\ FromImagesReturned
          => /\ Len(resp.val) = Len(req.files)
             /\ \A k \in 1..Len(resp.val) :
                  resp.val[k].image = req.files[k].content.image.src
             /\ (req.origin # None /\ req.origin[1].all)
                  => Len(resp.val) = req.origin[1].pages

\* the round trip of a two-page document
C19_Witness ==
    /\ FromImagesReturned
    /\ req.origin = Some([pages |-> 2, all |-> TRUE])
    /\ [k \in 1..Len(resp.val) |-> resp.val[k].image] = Doc(1, 2)

\* the image of request k as it is placed: after the automatic orientation
PlacedImage(k) ==
    auto_orient_image(req.files[k].content.image, req.auto_orient)

-----------------------------------------------------------------------------
(* PDFService.extract_text                                                 *)

\* a page of a document read for extraction: its text and the pixmaps of
\* its image list, in the order of page.get_images()
ExPage(text, images) == [text |-> text, images |-> images]

\* str.isspace of one character
IsSpace(c) == c \in {" ", "\n", "\t"}

\* text.split(): the runs of characters that are not whitespace
RECURSIVE text_split(_, _, _)
text_split(text, word, words) ==
    IF text = <<>>
    THEN (IF word = <<>> THEN words ELSE Append(words, word))
    ELSE IF IsSpace(Head(text))
    THEN text_split(Tail(text), <<>>,
                    IF word = <<>> THEN words ELSE Append(words, word))
    ELSE text_split(Tail(text), Append(word, Head(text)), words)

\* str(n) of an integer
RECURSIVE PyStr(_)
PyStr(n) ==
    IF n < 0 THEN <<"-">> \o PyStr(0 - n)
    ELSE IF n < 10 THEN <<CHOOSE c \in Digits : DigitVal(c) = n>>
    ELSE PyStr(n \div 10) \o <<CHOOSE c \in Digits : DigitVal(c) = n % 10>>

\* sep.join(items)
RECURSIVE PyJoin(_, _)
PyJoin(sep, items) ==
    IF items = <<>> THEN <<>>
    ELSE IF Len(items) = 1 THEN Head(items)
    ELSE Head(items) \o sep \o PyJoin(sep, Tail(items))

\* the entry of extracted_text for one page
text_item(page_num, text) ==
    [page |-> page_num + 1, text |-> text, words |-> Len(text_split(text, <<>>, <<>>))]

\* for page_num in pages_to_extract: ... word_count += len(text.split())
RECURSIVE extract_text_loop(_, _, _, _)
extract_text_loop(pdf_document, pages_to_extract, extracted_text, word_count) ==
    IF pages_to_extract = <<>>
    THEN Return([extracted_text |-> extracted_text, word_count |-> word_count])
    ELSE IF ~load_page_ok(pdf_document, Head(pages_to_extract))
    THEN Raise("IndexError: page not in document")
    ELSE extract_text_loop(
            pdf_document, Tail(pages_to_extract),
            Append(extracted_text,
                   text_item(Head(pages_to_extract),
                             pdf_document[load_page_index(
                                 pdf_document, Head(pages_to_extract))].text)),
            word_count
              + Len(text_split(
                      pdf_document[load_page_index(
                          pdf_document, Head(pages_to_extract))].text,
                      <<>>, <<>>)))

\* f"Page {item['page']}:\n{item['text']}"
text_block(item) ==
    <<"P", "a", "g", "e", " ">> \o PyStr(item.page) \o <<":", "\n">> \o item.text

\* f"## Page {item['page']}\n\n{item['text']}"
markdown_block(item) ==
    <<"#", "#", " ", "P", "a", "g", "e", " ">> \o PyStr(item.page)
        \o <<"\n", "\n">> \o item.text

\* lines 390-410: the result in the requested format
format_output(extracted_text, word_count, page_count, output_format) ==
    IF output_format = "text"
    THEN [text |-> Some(PyJoin(<<"\n", "\n">>,
                               [k \in 1..Len(extracted_text) |->
                                    text_block(extracted_text[k])])),
          pages |-> None, word_count |-> word_count, page_count |-> page_count]
    ELSE IF output_format = "json"
    THEN [text |-> None, pages |-> Some(extracted_text),
          word_count |-> word_count, page_count |-> page_count]
    ELSE [text |-> Some(PyJoin(<<"\n", "\n">>,
                               [k \in 1..Len(extracted_text) |->
                                    markdown_block(extracted_text[k])])),
          pages |-> None, word_count |-> word_count, page_count |-> page_count]

extract_text_looped(looped, page_count, output_format) ==
    IF ~looped.ok THEN looped
    ELSE Return(format_output(looped.val.extracted_text, looped.val.word_count,
                              page_count, output_format))

extract_text_resolved(pdf_document, pages_to_extract, output_format) ==
    IF ~pages_to_extract.ok THEN pages_to_extract
    ELSE extract_text_looped(
            extract_text_loop(pdf_document, pages_to_extract.val, <<>>, 0),
            Len(pages_to_extract.val), output_format)

extract_text_opened(pdf_document, pages, output_format) ==
    IF ~pdf_document.ok THEN pdf_document
    ELSE extract_text_resolved(pdf_document.val,
                               pages_or_all(pages, Len(pdf_document.val)),
                               output_format)

service_extract_text(pdf_data, pages, output_format) ==
    extract_text_opened(fitz_open(pdf_data), pages, output_format)

-----------------------------------------------------------------------------
(* PDFService.extract_images                                               *)

\* fitz.Pixmap(pdf_document, xref) of an embedded image
Pixmap(cs, width, height) == [cs |-> cs, width |-> width, height |-> height]

\* pix.tobytes("jpeg") / pix.tobytes("png"): PNG holds no CMYK pixmap
pix_tobytes(pix, image_format) ==
    IF image_format \in {"jpg", "jpeg"} THEN Return(<<"jpeg", pix>>)
    ELSE IF pix.cs = "CMYK"
    THEN Raise("ValueError: unsupported colorspace for 'png'")
    ELSE Return(<<"png", pix>>)

\* pix.width >= min_width and pix.height >= min_height
meets_minimum(pix, min_width, min_height) ==
    pix.width >= min_width /\ pix.height >= min_height

RECURSIVE extract_image_loop(_, _, _, _, _, _, _)

extract_image_append(page_num, image_list, img_index, min_width, min_height, image_format, extracted_images, img_data) ==
    IF ~img_data.ok THEN img_data
    ELSE extract_image_loop(
            page_num, image_list, img_index + 1, min_width, min_height,
            image_format,
            Append(extracted_images,
                   [page |-> page_num + 1, index |-> img_index,
                    width |-> image_list[img_index + 1].width,
                    height |-> image_list[img_index + 1].height,
                    data |-> img_data.val, format |-> image_format]))

\* for img_index, img in enumerate(image_list)
extract_image_loop(page_num, image_list, img_index, min_width, min_height, image_format, extracted_images) ==
    IF img_index >= Len(image_list) THEN Return(extracted_images)
    ELSE IF meets_minimum(image_list[img_index + 1], min_width, min_height)
    THEN extract_image_append(
            page_num, image_list, img_index, min_width, min_height,
            image_format, extracted_images,
            pix_tobytes(image_list[img_index + 1], image_format))
    ELSE extract_image_loop(page_num, image_list, img_index + 1, min_width,
                            min_height, image_format, extracted_images)

RECURSIVE extract_page_loop(_, _, _, _, _, _)

extract_page_next(pdf_document, pages_to_extract, min_width, min_height, image_format, extracted_images) ==
    IF ~extracted_images.ok THEN extracted_images
    ELSE extract_page_loop(pdf_document, pages_to_extract, min_width,
                           min_height, image_format, extracted_images.val)

\* for page_num in pages_to_extract
extract_page_loop(pdf_document, pages_to_extract, min_width, min_height, image_format, extracted_images) ==
    IF pages_to_extract = <<>> THEN Return(extracted_images)
    ELSE IF ~load_page_ok(pdf_document, Head(pages_to_extract))
    THEN Raise("IndexError: page not in document")
    ELSE extract_page_next(
            pdf_document, Tail(pages_to_extract), min_width, min_height,
            image_format,
            extract_image_loop(
                Head(pages_to_extract),
                pdf_document[load_page_index(pdf_document,
                                             Head(pages_to_extract))].images,
                0, min_width, min_height, image_format, extracted_images))

extract_images_resolved(pdf_document, pages_to_extract, min_width, min_height, image_format) ==
    IF ~pages_to_extract.ok THEN pages_to_extract
    ELSE extract_page_loop(pdf_document, pages_to_extract.val, min_width,
                           min_height, image_format, <<>>)

extract_images_opened(pdf_document, pages, min_width, min_height, image_format) ==
    IF ~pdf_document.ok THEN pdf_document
    ELSE extract_images_resolved(pdf_document.val,
                                 pages_or_all(pages, Len(pdf_document.val)),
                                 min_width, min_height, image_format)

service_extract_images(pdf_data, pages, min_width, min_height, image_format) ==
    extract_images_opened(fitz_open(pdf_data), pages, min_width, min_height,
                          image_format)
-----------------------------------------------------------------------------
(* pdf_extraction.py: the extraction endpoints                             *)

\* an endpoint's outcome and the buffers it handed to PDFService operations
\* that open a document (fitz.open, PdfReader)
ExtractOutcome(r, engine) ==
    [ok |-> r.ok, val |-> r.val, exc |-> r.exc, status |-> r.status, engine |-> engine]

\* pdf_service.download_file(url)
download_file(url) ==
    IF url.status # 200 THEN Raise("ValueError: Failed to download")
    ELSE Return(url.content)

\* ExtractTextResponse(json=... / text=..., word_count=..., page_count=...)
extract_text_response(result, format) ==
    IF format = "json"
    THEN [text |-> None, json |-> result.pages,
          word_count |-> result.word_count, page_count |-> result.page_count]
    ELSE [text |-> result.text, json |-> None,
          word_count |-> result.word_count, page_count |-> result.page_count]

extract_text_respond(result, format, pdf_content) ==
    IF ~result.ok THEN ExtractOutcome(CatchAll(result), <<pdf_content>>)
    ELSE ExtractOutcome(Http200(extract_text_response(result.val, format)),
                        <<pdf_content>>)

extract_text_content(pdf_content, pages, format) ==
    IF ~pdf_content.ok THEN ExtractOutcome(CatchAll(pdf_content), <<>>)
    ELSE extract_text_respond(
            service_extract_text(pdf_content.val, pages, format), format,
            pdf_content.val)

\* POST /pdf/extract/text
api_extract_text(file, pages, format) ==
    IF format \notin {"text", "json", "markdown"}
    THEN ExtractOutcome(CatchAll(Raise("HTTPException(400): Invalid format")),
                        <<>>)
    ELSE extract_text_content(validate_pdf_file(file), pages, format)

\* POST /pdf/extract/text-url
api_extract_text_from_url(url, pages, format) ==
    IF url = None
    THEN ExtractOutcome(CatchAll(Raise("HTTPException(400): URL is required")),
                        <<>>)
    ELSE extract_text_content(download_file(url[1]), pages, format)

\* f"page_{img_data['page']}_image_{img_data['index']}.{format}"
image_filename(img_data, format) ==
    <<"page_">> \o PyStr(img_data.page) \o <<"_image_">>
        \o PyStr(img_data.index) \o <<".", format>>

\* the entry of image_info for one extracted image
image_info_entry(img_data, format) ==
    [page |-> img_data.page, index |-> img_data.index,
     width |-> img_data.width, height |-> img_data.height,
     filename |-> image_filename(img_data, format)]

\* ExtractImagesResponse(images=..., total_images=..., zip_url=...): the
\* archive holds one entry per extracted image
extract_images_response(extracted_images, format) ==
    IF extracted_images = <<>>
    THEN [images |-> <<>>, total_images |-> 0, zip |-> None]
    ELSE [images |-> [k \in 1..Len(extracted_images) |->
                        image_info_entry(extracted_images[k], format)],
          total_images |-> Len(extracted_images),
          zip |-> Some([k \in 1..Len(extracted_images) |->
                          [filename |-> image_filename(extracted_images[k],
                                                       format),
                           data |-> extracted_images[k].data]])]

extract_images_respond(extracted_images, format, pdf_content) ==
    IF ~extracted_images.ok
    THEN ExtractOutcome(CatchAll(extracted_images), <<pdf_content>>)
    ELSE ExtractOutcome(
            Http200(extract_images_response(extracted_images.val, format)),
            <<pdf_content>>)

extract_images_content(pdf_content, pages, format, min_width, min_height) ==
    IF ~pdf_content.ok THEN ExtractOutcome(CatchAll(pdf_content), <<>>)
    ELSE extract_images_respond(
            service_extract_images(pdf_content.val, pages, min_width,
                                   min_height, format),
            format, pdf_content.val)

\* POST /pdf/extract/images
api_extract_images(file, pages, format, min_width, min_height) ==
    IF format \notin {"png", "jpeg", "jpg"}
    THEN ExtractOutcome(CatchAll(Raise("HTTPException(400): Invalid format")),
                        <<>>)
    ELSE IF min_width < 1 \/ min_height < 1
    THEN ExtractOutcome(
            CatchAll(Raise("HTTPException(400): Minimum dimensions must be at least 1 pixel")),
            <<>>)
    ELSE extract_images_content(validate_pdf_file(file), pages, format,
                                min_width, min_height)

\* POST /pdf/extract/images-url: the request model admits the formats of
\* ImageFormat, the framework answers any other with 422
api_extract_images_from_url(url, pages, format, min_width, min_height) ==
    IF format \notin {"png", "jpeg", "jpg", "gif", "bmp", "tiff"}
    THEN ExtractOutcome(HttpError(422, "ValidationError: format"), <<>>)
    ELSE IF url = None
    THEN ExtractOutcome(CatchAll(Raise("HTTPException(400): URL is required")),
                        <<>>)
    ELSE extract_images_content(download_file(url[1]), pages, format,
                                min_width, min_height)

metadata_read(pdf_reader) ==
    IF ~pdf_reader.ok THEN pdf_reader ELSE get_pdf_metadata(pdf_reader.val)

metadata_respond(metadata, pdf_content) ==
    IF ~metadata.ok THEN ExtractOutcome(CatchAll(metadata), <<pdf_content>>)
    ELSE ExtractOutcome(Http200(metadata.val), <<pdf_content>>)

metadata_content(pdf_content) ==
    IF ~pdf_content.ok THEN ExtractOutcome(CatchAll(pdf_content), <<>>)
    ELSE metadata_respond(metadata_read(PdfReader(pdf_content.val)),
                          pdf_content.val)

\* GET /pdf/extract/metadata-url
api_get_pdf_metadata_from_url(url) == metadata_content(download_file(url))

-----------------------------------------------------------------------------
(* Extract: Init draws a request to one of the extraction endpoints, the   *)
(* handler answers it                                                      *)

MaxExtractPages == 2     \* most pages of a document sent for extraction
MaxExtractExprLen == 3   \* longest enumerated expression sent for extraction

\* the texts of the enumerated pages: none, two words around a line break
\* and blanks, three words
ExtractTexts ==
    {<<>>, <<" ", "a", "b", "\n", " ", "c", " ">>,
     <<"a", " ", "b", "\t", "c">>}

\* the image lists of the enumerated pages: a narrow, a wide, a large and a
\* large CMYK image
ExtractImageLists ==
    {<<>>,
     <<Pixmap("RGB", 50, 300), Pixmap("RGB", 300, 300)>>,
     <<Pixmap("GRAY", 300, 50), Pixmap("RGB", 100, 100)>>,
     <<Pixmap("RGB", 200, 200), Pixmap("CMYK", 300, 300)>>}

TextDocs == UNION {[1..n -> {ExPage(t, <<>>) : t \in ExtractTexts}] : n \in 1..MaxExtractPages}

ImageDocs == UNION {[1..n -> {ExPage(<<>>, l) : l \in ExtractImageLists}] : n \in 1..MaxExtractPages}

ExtractAlphabet == {"0", "1", "2", "-"}

ExtractPages ==
    {None} \cup {Some(s) : s \in SeqsUpTo(ExtractAlphabet, MaxExtractExprLen)}

\* what the client uploads or the URL answers, for a set of documents
ExtractUploads(docs) ==
    {Upload(".pdf", PdfBytes(d)) : d \in docs} \cup {Upload(".pdf", JunkBytes)}

ExtractUrls(docs) ==
    {None, Some(Remote(200, JunkBytes)), Some(Remote(404, JunkBytes))}
    \cup {Some(Remote(200, PdfBytes(d))) : d \in docs}

TextFormats == {"text", "json", "markdown", "xml"}

ExtractImageFormats == {"png", "jpeg", "svg"}

MinWidths == {0, 100, 200}
MinHeights == {100, 200}

ExtractPending ==
    [ok |-> FALSE, val |-> <<>>, exc |-> "pending", status |-> 0, engine |-> <<>>]

InitExtract ==
    /\ pc = "ready"
    /\ redis = NoRedis
    /\ temp_files = NoTempFiles
    /\ \/ \E f \in ExtractUploads(TextDocs), p \in ExtractPages,
             t \in TextFormats :
                req = [endpoint |-> "/extract/text", file |-> f, pages |-> p,
                       format |-> t]
       \/ \E u \in ExtractUrls(TextDocs), p \in ExtractPages,
             t \in TextFormats :
                req = [endpoint |-> "/extract/text-url", url |-> u,
                       pages |-> p, format |-> t]
       \/ \E f \in ExtractUploads(ImageDocs), p \in ExtractPages,
             t \in ExtractImageFormats, w \in MinWidths, h \in MinHeights :
                req = [endpoint |-> "/extract/images", file |-> f,
                       pages |-> p, format |-> t, min_width |-> w,
                       min_height |-> h]
       \/ \E u \in ExtractUrls(ImageDocs), p \in {None, Some(<<"1">>)},
             t \in ExtractImageFormats, w \in MinWidths, h \in MinHeights :
                req = [endpoint |-> "/extract/images-url", url |-> u,
                       pages |-> p, format |-> t, min_width |-> w,
                       min_height |-> h]
       \/ \E u \in ExtractUrls(TextDocs) \ {None} :
                req = [endpoint |-> "/extract/metadata-url", url |-> u[1]]
    /\ resp = ExtractPending

ExtractText ==
    /\ pc = "ready"
    /\ req.endpoint = "/extract/text"
    /\ resp' = api_extract_text(req.file, req.pages, req.format)
    /\ pc' = "done"
    /\ UNCHANGED <<redis, temp_files>>
    /\ UNCHANGED req

ExtractTextFromUrl ==
    /\ pc = "ready"
    /\ req.endpoint = "/extract/text-url"
    /\ resp' = api_extract_text_from_url(req.url, req.pages, req.format)
    /\ pc' = "done"
    /\ UNCHANGED <<redis, temp_files>>
    /\ UNCHANGED req

ExtractImages ==
    /\ pc = "ready"
    /\ req.endpoint = "/extract/images"
    /\ resp' = api_extract_images(req.file, req.pages, req.format,
                                  req.min_width, req.min_height)
    /\ pc' = "done"
    /\ UNCHANGED <<redis, temp_files>>
    /\ UNCHANGED req

ExtractImagesFromUrl ==
    /\ pc = "ready"
    /\ req.endpoint = "/extract/images-url"
    /\ resp' = api_extract_images_from_url(req.url, req.pages, req.format,
                                           req.min_width, req.min_height)
    /\ pc' = "done"
    /\ UNCHANGED <<redis, temp_files>>
    /\ UNCHANGED req

MetadataFromUrl ==
    /\ pc = "ready"
    /\ req.endpoint = "/extract/metadata-url"
    /\ resp' = api_get_pdf_metadata_from_url(req.url)
    /\ pc' = "done"
    /\ UNCHANGED <<redis, temp_files>>
    /\ UNCHANGED req

NextExtract ==
    \/ ExtractText
    \/ ExtractTextFromUrl
    \/ ExtractImages
    \/ ExtractImagesFromUrl
    \/ MetadataFromUrl

SpecExtract == InitExtract /\ [][NextExtract]_vars
-----------------------------------------------------------------------------
(* Claims about the extraction endpoints                                   *)

ExtractDone == pc = "done" /\ req.endpoint \in {"/extract/text", "/extract/text-url", "/extract/images", "/extract/images-url", "/extract/metadata-url"}

TextReturned ==
    ExtractDone /\ req.endpoint \in {"/extract/text", "/extract/text-url"}
        /\ resp.ok

ImagesReturned ==
    ExtractDone /\ req.endpoint \in {"/extract/images", "/extract/images-url"}
        /\ resp.ok

\* the buffer the request brings: the upload's content or the URL's answer
ExtractContent ==
    IF req.endpoint \in {"/extract/text", "/extract/images"}
    THEN req.file.content
    ELSE req.url[1].content

\* the 0-based indices of the pages the request selects
ExtractSelected ==
    IF TruthySeq(req.pages)
    THEN Selected(req.pages, Len(ExtractContent.pages))
    ELSE 0..(Len(ExtractContent.pages) - 1)

\* the number of whitespace-separated tokens of a text: the places where a
\* token starts
TokenCount(text) ==
    Cardinality({i \in 1..Len(text) :
                    /\ ~IsSpace(text[i])
                    /\ (i = 1 \/ IsSpace(text[i - 1]))})

RECURSIVE SumTokens(_, _)
SumTokens(pdf_pages, indices) ==
    IF indices = {} THEN 0
    ELSE TokenCount(pdf_pages[(CHOOSE i \in indices : TRUE) + 1].text)
            + SumTokens(pdf_pages, indices \ {CHOOSE i \in indices : TRUE})

\* the counts extract_text gives for the request's document and expression
\* in format f are those of the response
SameCounts(f) ==
    /\ service_extract_text(ExtractContent, req.pages, f).ok
    /\ service_extract_text(ExtractContent, req.pages, f).val.word_count
            = resp.val.word_count
    /\ service_extract_text(ExtractContent, req.pages, f).val.page_count
            = resp.val.page_count

\* C21: for the same document and expression extract_text gives the same
\* word_count and page_count in the formats text, json and markdown;
\* word_count is the sum of the token counts of the selected pages and
\* page_count is the number of selected pages.
C21_CountsOfSelectedPages ==
    TextReturned =>
        /\ \A f \in {"text", "json", "markdown"} : SameCounts(f)
        /\ resp.val.word_count = SumTokens(ExtractContent.pages, ExtractSelected)
        /\ resp.val.page_count = Cardinality(ExtractSelected)

\* the counts do not depend on the format, whatever the expression
CountsAgreeAcrossFormats ==
    TextReturned => \A f \in {"text", "json", "markdown"} : SameCounts(f)

\* the <<1-based page number, index in the page's image list>> of the
\* images of the selected pages that meet both minimums
ExpectedImages ==
    {<<k + 1, i>> : k \in ExtractSelected, i \in 0..1} \cap
    {e \in (1..Len(ExtractContent.pages)) \X (0..1) :
        /\ e[2] < Len(ExtractContent.pages[e[1]].images)
        /\ ExtractContent.pages[e[1]].images[e[2] + 1].width >= req.min_width
        /\ ExtractContent.pages[e[1]].images[e[2] + 1].height >= req.min_height}

\* C22: the images extract_images returns are exactly the images of the
\* selected pages whose width >= min_width and whose height >= min_height,
\* each once, each entry carrying the 1-based page number, the index in the
\* page's full image list and the image's size, and named after both.
C22_ImagesMeetingBothMinimums ==
    ImagesReturned =>
        /\ {<<resp.val.images[k].page, resp.val.images[k].index>> :
                k \in 1..Len(resp.val.images)} = ExpectedImages
        /\ Len(resp.val.images) = Cardinality(ExpectedImages)
        /\ resp.val.total_images = Len(resp.val.images)
        /\ \A k \in 1..Len(resp.val.images) :
              /\ resp.val.images[k].filename
                    = image_filename(resp.val.images[k], req.format)
              /\ resp.val.images[k].page \in 1..Len(ExtractContent.pages)

\* C23: a buffer that does not begin with %PDF is never handed to a
\* PDFService operation, on the upload endpoints and on the URL endpoints.
C23_OnlyPdfReachesEngine ==
    ExtractDone =>
        \A k \in 1..Len(resp.engine) : resp.engine[k].magic = "%PDF"

\* the upload endpoints hand over only what validate_pdf_file accepted
UploadsValidated ==
    (ExtractDone /\ req.endpoint \in {"/extract/text", "/extract/images"}) =>
        \A k \in 1..Len(resp.engine) : resp.engine[k].magic = "%PDF"

-----------------------------------------------------------------------------
(* Claims about the handlers' error paths and repeated images              *)

\* C25: a rotate request whose angle is not 90, 180 or 270 is answered with
\* status 400 and the handler's detail message (the same for the other
\* validation failures the manipulation handlers detect).
C25_ValidationFailureIs400 ==
    (pc = "done" /\ req.endpoint = "/rotate" /\ req.angle \notin {90, 180, 270})
    => /\ resp.status = 400
       /\ resp.exc = "HTTPException(400): Angle must be 90, 180, or 270"

\* the /split request the handler's checks accept, for a valid document of
\* at least one page: exactly one of pages and chunks, chunks >= 1 or an
\* expression parse_page_ranges accepts
SplitAccepted ==
    /\ pc = "done"
    /\ req.endpoint = "/split"
    /\ validate_pdf_file(req.file).ok
    /\ Len(SourcePages) >= 1
    /\ split_arguments(req.pages, req.chunks).ok
    /\ ChunksSet => req.chunks[1] >= 1
    /\ PagesSet => parse_page_ranges(req.pages, Len(SourcePages)).ok

\* C28: every accepted /split request on a valid document of at least one
\* page (also chunks > total and an expression selecting no existing page)
\* ends with status 200 and one file entry per document split_pdf produced,
\* each with the document's page count.
C28_AcceptedSplitSucceeds ==
    SplitAccepted =>
        /\ resp.ok
        /\ resp.status = 200
        /\ SplitReturned
        /\ Len(resp.val) = Len(SplitDocs)
        /\ \A i \in 1..Len(resp.val) :
              /\ resp.val[i].pages = Len(SplitDocs[i])
              /\ resp.val[i].part = i

\* the accepted requests that make no empty document are answered as C28
\* says
SplitWithoutEmptyDocumentSucceeds ==
    (SplitAccepted /\ SplitReturned
        /\ \A i \in 1..Len(SplitDocs) : SplitDocs[i] # <<>>)
    => /\ resp.ok
       /\ Len(resp.val) = Len(SplitDocs)
       /\ \A i \in 1..Len(resp.val) : resp.val[i].pages = Len(SplitDocs[i])

\* C29: in one compress call the stream of each image object is re-encoded
\* at most once, however often pages refer to the object.
C29_EachImageEncodedOnce ==
    CompressReturned =>
        \A x \in CompressXrefs : resp.val.objects[x].encoded <= 1

-----------------------------------------------------------------------------
(* dependencies.py: verify_api_key and check_rate_limit; main.py: the      *)
(* Stripe webhook.                                                         *)
(*                                                                         *)
(* The store is shared by every server process started on REDIS_URL.  One  *)
(* Redis command is one step; the commands of calls served by different    *)
(* processes interleave freely (inside one event loop a call runs without  *)
(* suspension, so calls served by the same process do not interleave).     *)
(* The expiry of a key is an event of the store and may fire between any   *)
(* two commands.                                                           *)
(*  - pc[w] is the position of the call server process w is serving.       *)
(*  - req holds the calls: per process the X-API-Key header and whether    *)
(*    the call started after the webhook processed the deletion of the     *)
(*    key's subscription; the number of calls started and the deleted      *)
(*    subscriptions.                                                       *)
(*  - resp holds per process the status answered and the value read from   *)
(*    the counter, and per key the number of calls check_rate_limit has    *)
(*    passed since the key's counter was created.                          *)

RATE_LIMIT_BASIC == 100
RATE_LIMIT_PRO == 1000
RATE_LIMIT_ENTERPRISE == 10000
RATE_LIMIT_EXPIRY == 3600

MaxVerifyCalls == 3     \* most calls the server processes serve together

Workers == {"w1", "w2"}
ApiKeys == {"pdf_test_1", "pdf_test_2"}
Plans == {"basic", "pro", "enterprise", "gold"}
Subscriptions == {"sub_1"}

\* limits.get(plan, settings.RATE_LIMIT_BASIC)
rate_limit_of(plan) ==
    CASE plan = "basic" -> RATE_LIMIT_BASIC
      [] plan = "pro" -> RATE_LIMIT_PRO
      [] plan = "enterprise" -> RATE_LIMIT_ENTERPRISE
      [] OTHER -> RATE_LIMIT_BASIC

\* the hash the webhook stores for a new key
api_key_hash(plan, subscription_id) ==
    [plan |-> plan, active |-> "true", requests |-> 0, last_used |-> 0, stripe_subscription_id |-> subscription_id]

\* a counter: its value and the expiry it was given, -1 when it has none
rate_counter(value, ttl) == [value |-> value, ttl |-> ttl]

\* redis_client.incr(key): a missing key is created with the value 1 and
\* without expiry
redis_incr(counter) ==
    IF counter = None THEN Some(rate_counter(1, 0 - 1))
    ELSE Some(rate_counter(counter[1].value + 1, counter[1].ttl))

\* the position after GET: `if current is None` goes to SETEX, else to the
\* limit test
after_get(current) == IF current = None THEN "setex" ELSE "hget_plan"

\* if count >= limit: return False
over_limit(count, plan) == count >= rate_limit_of(plan)

\* the store after the calls accepted so far in the window of the first
\* key, all served one after the other: none (n = 0) or one less than the
\* plan's limit (n = 2)
RateStores ==
    {[hash |-> [k \in ApiKeys |->
                    IF k = "pdf_test_1" THEN Some(api_key_hash(p, "sub_1"))
                    ELSE None],
      rate |-> [k \in ApiKeys |->
                    IF k = "pdf_test_1" /\ n > 0
                    THEN Some(rate_counter(rate_limit_of(p) - n + 1,
                                           RATE_LIMIT_EXPIRY))
                    ELSE None]] :
        p \in Plans, n \in {0, 2}}

InitRate ==
    /\ pc = [w \in Workers |-> "idle"]
    /\ redis \in RateStores
    /\ req = [x_api_key |-> [w \in Workers |-> None],
              calls |-> 0,
              late |-> [w \in Workers |-> FALSE],
              deleted |-> {}]
    /\ resp = [status |-> [w \in Workers |-> 0],
               current |-> [w \in Workers |-> None],
               accepted |-> [k \in ApiKeys |->
                               IF redis.rate[k] = None THEN 0
                               ELSE redis.rate[k][1].value]]
    /\ temp_files = NoTempFiles

\* the key of the call process w is serving
KeyOf(w) == req.x_api_key[w][1]

\* process w answers its call with status s
Answer(w, s) ==
    /\ pc' = [pc EXCEPT ![w] = "done"]
    /\ resp' = [resp EXCEPT !.status[w] = s]

\* a request arrives at process w: `if not x_api_key` answers 401
VerifyCall(w) ==
    /\ pc[w] \in {"idle", "done"}
    /\ req.calls < MaxVerifyCalls
    /\ \E x \in {None} \cup {Some(k) : k \in ApiKeys} :
          /\ req' = [req EXCEPT
                        !.x_api_key[w] = x,
                        !.calls = @ + 1,
                        !.late[w] =
                            /\ x # None
                            /\ redis.hash[x[1]] # None
                            /\ redis.hash[x[1]][1].stripe_subscription_id
                                    \in req.deleted]
          /\ IF x = None
             THEN Answer(w, 401)
             ELSE /\ pc' = [pc EXCEPT ![w] = "exists"]
                  /\ resp' = [resp EXCEPT !.status[w] = 0, !.current[w] = None]
    /\ UNCHANGED <<redis, temp_files>>

\* exists = redis_client.exists(f"api_key:{x_api_key}")
VerifyExists(w) ==
    /\ pc[w] = "exists"
    /\ IF redis.hash[KeyOf(w)] = None
       THEN Answer(w, 401)
       ELSE pc' = [pc EXCEPT ![w] = "hget_active"] /\ UNCHANGED resp
    /\ UNCHANGED <<req, redis, temp_files>>

\* is_active = redis_client.hget(f"api_key:{x_api_key}", "active")
VerifyActive(w) ==
    /\ pc[w] = "hget_active"
    /\ IF redis.hash[KeyOf(w)][1].active # "true"
       THEN Answer(w, 403)
       ELSE pc' = [pc EXCEPT ![w] = "get"] /\ UNCHANGED resp
    /\ UNCHANGED <<req, redis, temp_files>>

\* current = redis_client.get(key)
RateGet(w) ==
    /\ pc[w] = "get"
    /\ resp' = [resp EXCEPT !.current[w] = redis.rate[KeyOf(w)]]
    /\ pc' = [pc EXCEPT ![w] = after_get(redis.rate[KeyOf(w)])]
    /\ UNCHANGED <<req, redis, temp_files>>

\* redis_client.setex(key, 3600, 1); return True
RateSetex(w) ==
    /\ pc[w] = "setex"
    /\ redis' = [redis EXCEPT !.rate[KeyOf(w)] =
                    Some(rate_counter(1, RATE_LIMIT_EXPIRY))]
    /\ resp' = [resp EXCEPT !.accepted[KeyOf(w)] = @ + 1]
    /\ pc' = [pc EXCEPT ![w] = "hset_last_used"]
    /\ UNCHANGED <<req, temp_files>>

\* plan = redis_client.hget(..., "plan") or "basic"; if count >= limit:
\* return False (answered 429)
RateHgetPlan(w) ==
    /\ pc[w] = "hget_plan"
    /\ IF over_limit(resp.current[w][1].value, redis.hash[KeyOf(w)][1].plan)
       THEN Answer(w, 429)
       ELSE pc' = [pc EXCEPT ![w] = "incr"] /\ UNCHANGED resp
    /\ UNCHANGED <<req, redis, temp_files>>

\* redis_client.incr(key); return True
RateIncr(w) ==
    /\ pc[w] = "incr"
    /\ redis' = [redis EXCEPT !.rate[KeyOf(w)] = redis_incr(@)]
    /\ resp' = [resp EXCEPT !.accepted[KeyOf(w)] = @ + 1]
    /\ pc' = [pc EXCEPT ![w] = "hset_last_used"]
    /\ UNCHANGED <<req, temp_files>>

\* redis_client.hset(f"api_key:{x_api_key}", "last_used", ...): a time
\* later than the key's creation
VerifyHsetLastUsed(w) ==
    /\ pc[w] = "hset_last_used"
    /\ redis' = [redis EXCEPT !.hash[KeyOf(w)][1].last_used = 1]
    /\ pc' = [pc EXCEPT ![w] = "hincrby"]
    /\ UNCHANGED <<req, resp, temp_files>>

\* redis_client.hincrby(f"api_key:{x_api_key}", "requests", 1); return
VerifyHincrby(w) ==
    /\ pc[w] = "hincrby"
    /\ redis' = [redis EXCEPT !.hash[KeyOf(w)][1].requests = @ + 1]
    /\ Answer(w, 200)
    /\ UNCHANGED <<req, temp_files>>

\* the store removes a counter whose expiry has come: its window ends
RateExpire(k) ==
    /\ redis.rate[k] # None
    /\ redis.rate[k][1].ttl # 0 - 1
    /\ redis' = [redis EXCEPT !.rate[k] = None]
    /\ resp' = [resp EXCEPT !.accepted[k] = 0]
    /\ UNCHANGED <<pc, req, temp_files>>

\* stripe_webhook, checkout.session.completed: a new key is stored for the
\* session's subscription (Stripe may deliver the event more than once)
StripeCheckoutCompleted(k, plan, sub) ==
    /\ redis.hash[k] = None
    /\ redis' = [redis EXCEPT !.hash[k] = Some(api_key_hash(plan, sub))]
    /\ UNCHANGED <<pc, req, resp, temp_files>>

\* stripe_webhook, customer.subscription.deleted: the first key scan_iter
\* yields with the subscription's id is deactivated, then `break`
StripeSubscriptionDeleted(sub) ==
    /\ sub \notin req.deleted
    /\ \/ \E k \in ApiKeys :
            /\ redis.hash[k] # None
            /\ redis.hash[k][1].stripe_subscription_id = sub
            /\ redis' = [redis EXCEPT !.hash[k][1].active = "false"]
       \/ /\ \A k \in ApiKeys :
                redis.hash[k] # None
                    => redis.hash[k][1].stripe_subscription_id # sub
          /\ UNCHANGED redis
    /\ req' = [req EXCEPT !.deleted = @ \cup {sub}]
    /\ UNCHANGED <<pc, resp, temp_files>>

NextRate ==
    \/ \E w \in Workers : VerifyCall(w)
    \/ \E w \in Workers : VerifyExists(w)
    \/ \E w \in Workers : VerifyActive(w)
    \/ \E w \in Workers : RateGet(w)
    \/ \E w \in Workers : RateSetex(w)
    \/ \E w \in Workers : RateHgetPlan(w)
    \/ \E w \in Workers : RateIncr(w)
    \/ \E w \in Workers : VerifyHsetLastUsed(w)
    \/ \E w \in Workers : VerifyHincrby(w)
    \/ \E k \in ApiKeys : RateExpire(k)
    \/ \E k \in ApiKeys, p \in {"basic"}, s \in Subscriptions :
            StripeCheckoutCompleted(k, p, s)
    \/ \E s \in Subscriptions : StripeSubscriptionDeleted(s)

SpecRate == InitRate /\ [][NextRate]_vars

-----------------------------------------------------------------------------
(* Claims about the rate limit and the revocation of keys                  *)

\* C26: in every window of a key's counter, whatever the interleaving of
\* the calls, at most the plan's hourly limit of calls pass
\* check_rate_limit, and the stored counter is the number of calls passed
\* in the window.
C26_AtMostLimitAccepted ==
    \A k \in ApiKeys :
        redis.hash[k] # None =>
            /\ resp.accepted[k] <= rate_limit_of(redis.hash[k][1].plan)
            /\ redis.rate[k] # None
                  => redis.rate[k][1].value = resp.accepted[k]

\* a call of process w that began after the deletion of its key's
\* subscription was processed
LateCall(w) == pc[w] # "idle" /\ req.late[w]

\* a step of a late call leaves the counter and the usage fields of its key
\* as they were
LateCallFrame ==
    \A w \in Workers :
        (LateCall(w) /\ pc[w] # "done" /\ pc'[w] # pc[w]) =>
            /\ redis'.rate[KeyOf(w)] = redis.rate[KeyOf(w)]
            /\ redis'.hash[KeyOf(w)][1].requests
                    = redis.hash[KeyOf(w)][1].requests
            /\ redis'.hash[KeyOf(w)][1].last_used
                    = redis.hash[KeyOf(w)][1].last_used

LateCallRejected ==
    \A w \in Workers :
        (LateCall(w) /\ pc[w] = "done") => resp.status[w] = 403

\* C27: once the webhook has processed customer.subscription.deleted for a
\* subscription, every later verify_api_key call with a key created for
\* that subscription is answered 403 and changes neither the key's counter
\* nor its requests and last_used fields.
C27_RevokedAfterSubscriptionDeleted ==
    [](LateCallRejected) /\ [][LateCallFrame]_vars

\* the same with one key per subscription
OneKeyPerSubscription ==
    \A k, l \in ApiKeys :
        (redis.hash[k] # None /\ redis.hash[l] # None /\ k # l)
            => redis.hash[k][1].stripe_subscription_id
                    # redis.hash[l][1].stripe_subscription_id

RevokedWithOneKeyPerSubscription ==
    OneKeyPerSubscription => LateCallRejected

\* C30: an existing counter always carries an expiry of at most 3600
\* seconds, also when its expiry fired between the read and the increment
\* of check_rate_limit (so that a throttled key is accepted again when its
\* window ends).
C30_CounterAlwaysExpires ==
    \A k \in ApiKeys :
        redis.rate[k] # None => redis.rate[k][1].ttl \in 1..RATE_LIMIT_EXPIRY

-----------------------------------------------------------------------------
(* PDFService.split_pdf, pdf_to_images and extract_images, step by step    *)
(*                                                                         *)
(* An operation opens its document and resolves the pages, then produces   *)
(* its buffers one by one into a local list, and returns the list after    *)
(* the last one; an exception at any step leaves the operation.            *)
(*  - pc is the position of the operation: "save_temp", "open", "loop",    *)
(*    "finally", and "returned" or "raised" when it has left.              *)
(*  - req is the call: the operation and its arguments.                    *)
(*  - resp holds the elements the loop has still to produce (plan), the    *)
(*    local list (buffers), the exception on its way out (exc) and what    *)
(*    the caller received (returned).                                      *)
(*  - temp_files is the content of settings.TEMP_DIR.                      *)

MaxEnginePages == 2     \* most pages of a document handed to an operation

\* the name NamedTemporaryFile gives the file of the call
TempName == "tmp_1.pdf"

\* the elements of a finished list, each one produced without failure
plan_of_list(results) ==
    IF ~results.ok THEN results
    ELSE Return([k \in 1..Len(results.val) |-> Return(results.val[k])])

\* split_pdf: one element per written document
split_plan(pdf_data, pages, chunks) ==
    plan_of_list(service_split_pdf(pdf_data, pages, chunks))

\* img.save(output, format=image_format.upper()); output.getvalue()
save_image(img, image_format) ==
    IF pil_save_ok(image_format) THEN Return(ImageBytes(img))
    ELSE Raise("KeyError")

to_images_page_list(pdf_pages, page_list, dpi) ==
    IF ~page_list.ok THEN page_list
    ELSE Return(convert_pages(pdf_pages, page_list.val, dpi, <<>>))

\* lines 472-491: the PIL images of the pages
to_images_convert(pdf_reader, dpi, pages) ==
    IF ~pdf_reader.ok THEN pdf_reader
    ELSE IF TruthySeq(pages)
    THEN to_images_page_list(pdf_reader.val,
                             parse_page_ranges(pages, Len(pdf_reader.val)),
                             dpi)
    ELSE Return(convert_from_path(pdf_reader.val, dpi, 1, Len(pdf_reader.val)))

to_images_saves(images, image_format) ==
    IF ~images.ok THEN images
    ELSE Return([k \in 1..Len(images.val) |->
                    save_image(images.val[k], image_format)])

\* pdf_to_images: one element per PIL image
to_images_plan(pdf_data, dpi, image_format, pages) ==
    to_images_saves(to_images_convert(PdfReader(pdf_data), dpi, pages),
                    image_format)

\* extracted_images.append({...}) after pix.tobytes
image_item(page_num, pix, img_index, image_format, img_data) ==
    IF ~img_data.ok THEN img_data
    ELSE Return([page |-> page_num + 1, index |-> img_index,
                 width |-> pix.width, height |-> pix.height,
                 data |-> img_data.val, format |-> image_format])

\* for img_index, img in enumerate(image_list): the images of the page that
\* pass the size test
RECURSIVE image_plan(_, _, _, _, _, _)
image_plan(page_num, image_list, img_index, min_width, min_height, image_format) ==
    IF img_index >= Len(image_list) THEN <<>>
    ELSE (IF meets_minimum(image_list[img_index + 1], min_width, min_height)
          THEN <<image_item(page_num, image_list[img_index + 1], img_index,
                            image_format,
                            pix_tobytes(image_list[img_index + 1],
                                        image_format))>>
          ELSE <<>>)
         \o image_plan(page_num, image_list, img_index + 1, min_width,
                       min_height, image_format)

\* for page_num in pages_to_extract: page = pdf_document[page_num]
RECURSIVE page_plan(_, _, _, _, _)
page_plan(pdf_document, pages_to_extract, min_width, min_height, image_format) ==
    IF pages_to_extract = <<>> THEN <<>>
    ELSE IF ~load_page_ok(pdf_document, Head(pages_to_extract))
    THEN <<Raise("IndexError: page not in document")>>
    ELSE image_plan(Head(pages_to_extract),
                    pdf_document[load_page_index(
                        pdf_document, Head(pages_to_extract))].images,
                    0, min_width, min_height, image_format)
         \o page_plan(pdf_document, Tail(pages_to_extract), min_width,
                      min_height, image_format)

extract_plan_resolved(pdf_document, pages_to_extract, min_width, min_height, image_format) ==
    IF ~pages_to_extract.ok THEN pages_to_extract
    ELSE Return(page_plan(pdf_document, pages_to_extract.val, min_width,
                          min_height, image_format))

extract_plan_opened(pdf_document, pages, min_width, min_height, image_format) ==
    IF ~pdf_document.ok THEN pdf_document
    ELSE extract_plan_resolved(pdf_document.val,
                               pages_or_all(pages, Len(pdf_document.val)),
                               min_width, min_height, image_format)

\* extract_images: one element per image that passes the size test
extract_images_plan(pdf_data, pages, min_width, min_height, image_format) ==
    extract_plan_opened(fitz_open(pdf_data), pages, min_width, min_height,
                        image_format)

\* the elements the call has to produce, or the exception of its opening
engine_plan(r) ==
    CASE r.operation = "split_pdf" -> split_plan(r.pdf_data, r.pages, r.chunks)
      [] r.operation = "pdf_to_images" ->
            to_images_plan(r.pdf_data, r.dpi, r.image_format, r.pages)
      [] OTHER ->
            extract_images_plan(r.pdf_data, r.pages, r.min_width,
                                r.min_height, r.image_format)

\* the result of the call as the operators above compute it in one piece
engine_result(r) ==
    CASE r.operation = "split_pdf" ->
            service_split_pdf(r.pdf_data, r.pages, r.chunks)
      [] r.operation = "pdf_to_images" ->
            service_pdf_to_images(r.pdf_data, r.dpi, r.image_format, r.pages)
      [] OTHER ->
            service_extract_images(r.pdf_data, r.pages, r.min_width,
                                   r.min_height, r.image_format)

EnginePages ==
    {None, Some(<<"1">>), Some(<<"2">>), Some(<<"1", "-", "2">>),
     Some(<<"3">>), Some(<<"x">>)}

EngineSplitData ==
    {PdfBytes(Doc(1, n)) : n \in 0..MaxEnginePages} \cup {JunkBytes}

EngineImageData ==
    {PdfBytes(Doc(1, n)) : n \in 1..MaxEnginePages} \cup {JunkBytes}

EngineExtractData ==
    {JunkBytes}
    \cup {PdfBytes(d) :
            d \in UNION {[1..n -> {ExPage(<<>>, l) : l \in ExtractImageLists}] :
                            n \in 1..MaxEnginePages}}

EnginePending ==
    [plan |-> <<>>, buffers |-> <<>>, exc |-> "none", returned |-> None]

InitEngine ==
    /\ \/ \E d \in EngineSplitData, p \in EnginePages,
             c \in {None, Some(2)} :
                req = [operation |-> "split_pdf", pdf_data |-> d,
                       pages |-> p, chunks |-> c]
       \/ \E d \in EngineImageData, p \in EnginePages,
             t \in {"png", "jpg"} :
                req = [operation |-> "pdf_to_images", pdf_data |-> d,
                       dpi |-> 72, image_format |-> t, pages |-> p]
       \/ \E d \in EngineExtractData, p \in EnginePages,
             t \in {"png", "jpeg"} :
                req = [operation |-> "extract_images", pdf_data |-> d,
                       pages |-> p, min_width |-> 100, min_height |-> 100,
                       image_format |-> t]
    /\ pc = IF req.operation = "pdf_to_images" THEN "save_temp" ELSE "open"
    /\ resp = EnginePending
    /\ redis = NoRedis
    /\ temp_files = NoTempFiles

\* an exception leaves the operation: through the `finally:` of
\* pdf_to_images, straight to the caller in the other two
EngineRaise(e) ==
    /\ resp' = [resp EXCEPT !.exc = e]
    /\ pc' = IF req.operation = "pdf_to_images" THEN "finally" ELSE "raised"

\* temp_path = await self.save_temp_file(pdf_data), before the `try:`:
\* NamedTemporaryFile(delete=False) creates the file, tmp_file.write then
\* fills it or fails (no space left on the device)
EngineSaveTemp ==
    /\ pc = "save_temp"
    /\ temp_files' = temp_files \cup {TempName}
    /\ \E written \in BOOLEAN :
          IF written THEN pc' = "open" /\ UNCHANGED resp
          ELSE /\ pc' = "raised"
               /\ resp' = [resp EXCEPT !.exc = "OSError: write"]
    /\ UNCHANGED <<req, redis>>

\* the loop is entered with the elements to produce, or the opening raised
EngineOpened(plan) ==
    IF plan.ok
    THEN /\ resp' = [resp EXCEPT !.plan = plan.val]
         /\ pc' = "loop"
    ELSE EngineRaise(plan.exc)

\* the document is opened and the pages resolved
EngineOpen ==
    /\ pc = "open"
    /\ EngineOpened(engine_plan(req))
    /\ UNCHANGED <<req, redis, temp_files>>

\* one pass of the loop: the next element is produced and appended to the
\* local list, or its production raises
EngineProduced(element) ==
    IF element.ok
    THEN /\ resp' = [resp EXCEPT !.buffers = Append(@, element.val)]
         /\ pc' = "loop"
    ELSE EngineRaise(element.exc)

EngineProduce ==
    /\ pc = "loop"
    /\ Len(resp.buffers) < Len(resp.plan)
    /\ EngineProduced(resp.plan[Len(resp.buffers) + 1])
    /\ UNCHANGED <<req, redis, temp_files>>

\* `return results` / `return image_bytes` / `return extracted_images`
\* after the loop
EngineReturn ==
    /\ pc = "loop"
    /\ Len(resp.buffers) = Len(resp.plan)
    /\ IF req.operation = "pdf_to_images"
       THEN pc' = "finally" /\ UNCHANGED resp
       ELSE /\ pc' = "returned"
            /\ resp' = [resp EXCEPT !.returned = Some(resp.buffers)]
    /\ UNCHANGED <<req, redis, temp_files>>

\* finally: os.unlink(temp_path); then the value is returned or the
\* exception goes on
EngineFinally ==
    /\ pc = "finally"
    /\ temp_files' = temp_files \ {TempName}
    /\ IF resp.exc = "none"
       THEN /\ pc' = "returned"
            /\ resp' = [resp EXCEPT !.returned = Some(resp.buffers)]
       ELSE pc' = "raised" /\ UNCHANGED resp
    /\ UNCHANGED <<req, redis>>

NextEngine ==
    \/ EngineSaveTemp
    \/ EngineOpen
    \/ EngineProduce
    \/ EngineReturn
    \/ EngineFinally

SpecEngine == InitEngine /\ [][NextEngine]_vars

-----------------------------------------------------------------------------
(* Claims about the engine operations (specification SpecEngine)           *)

EngineLeft == pc \in {"returned", "raised"}

\* the step-by-step run and the operators that compute an operation in one
\* piece agree on what the caller receives
EngineAgreesWith(result) ==
    /\ pc = "returned"
          => /\ result.ok
             /\ resp.returned = Some(result.val)
    /\ (pc = "raised" /\ resp.exc # "OSError: write")
          => /\ ~result.ok
             /\ resp.exc = result.exc

EngineAgrees == EngineLeft => EngineAgreesWith(engine_result(req))

\* the caller receives a list only from an operation that produced every
\* element, and nothing from one that raised
NoPartialOutput ==
    /\ resp.returned # None
          => /\ pc = "returned"
             /\ resp.returned[1] = resp.buffers
             /\ Len(resp.buffers) = Len(resp.plan)
             /\ \A k \in 1..Len(resp.plan) : resp.plan[k].ok
    /\ pc = "raised" => resp.returned = None

\* a pdf_to_images call that has left has removed its temporary file
TempFileRemoved ==
    (EngineLeft /\ req.operation = "pdf_to_images")
        => temp_files = NoTempFiles

\* the same for the calls whose temporary file was written
TempFileRemovedWhenWritten ==
    (EngineLeft /\ req.operation = "pdf_to_images"
        /\ resp.exc # "OSError: write")
        => temp_files = NoTempFiles

\* a failure after the first element was produced
FailedAfterFirstElement ==
    pc = "raised" /\ resp.buffers # <<>> /\ resp.returned = None

\* C24: split, pdf_to_images and extract_images return their list of
\* buffers only after every element has been produced, a failure at any
\* step returns no buffer at all, and pdf_to_images has removed the
\* temporary file it created by the time it returns or raises.
C24_NoPartialOutputNoTempFile ==
    NoPartialOutput /\ TempFileRemoved

=============================================================================
